---- MODULE Spec2Model ----
(***************************************************************************)
(* Lifecycle controller of the CloudRift Terraform provider.               *)
(*                                                                         *)
(* The module models the virtual-machine resource (Create: key lookup,     *)
(* rent, poll-to-ready; Read; Delete: terminate, poll-to-absent), the      *)
(* SSH-key resource and the parts of the API client they call              *)
(* (GetInstance, RentPublicInstanceVM, the recipe cache).                  *)
(*                                                                         *)
(* Conventions                                                             *)
(*   - a Go pointer / optional value is a sequence of length 0 or 1;       *)
(*   - a types.String is a string, with Null and Unknown as the null and   *)
(*     unknown values of the plugin framework;                             *)
(*   - the result of one API call (DoRequestWithApiToken and the parse     *)
(*     that follows it) is a record [err, ...]: err = NoErr with the       *)
(*     payload, err = ErrNotFound for a 404 answer, err = ErrOther for     *)
(*     every other failure (transport failure after the retries, another   *)
(*     non-2xx status, an unparsable body).                                *)
(***************************************************************************)
EXTENDS Integers, Sequences, FiniteSets, TLC

\* ------------------------------------------------------------------ bounds
\* lifecycle operations that look a recipe up at the same time
MaxFlows == 2
\* longest virtual-machine list of a fetched instance
MaxVMs == 2
\* largest number of instance ids in a rent response
MaxIds == 2
\* the request counters saturate at this value
SentCap == 2

\* --------------------------------------------------------------- constants
Null == "<null>"
Unknown == "<unknown>"
NoErr == "nil"
ErrNotFound == "resource not found"
ErrOther == "request failed"

Initializing == "Initializing"
Active == "Active"
Deactivating == "Deactivating"
Inactive == "Inactive"
InstanceStatus == {Initializing, Active, Deactivating, Inactive}

InstanceIdSet == {"1", "2"}

\* ------------------------------------------------------- sequence helpers
Range(s) == {s[i] : i \in DOMAIN s}

SeqsUpTo(S, n) == UNION {[1..k -> S] : k \in 0..n}

Min(a, b) == IF a < b THEN a ELSE b

\* ------------------------------------------------------ remote data shapes
\* cloudriftapi.VirtualMachineInfo of the k-th machine of an instance
VmInfo(k, ready) ==
    [Vmid |-> k, Name |-> "vm", Ready |-> ready, LoginInfo |-> <<>>]

VmLists ==
    UNION {{[k \in 1..m |-> VmInfo(k, f[k])] : f \in [1..m -> BOOLEAN]} : m \in 0..MaxVMs}

\* cloudriftapi.InstanceAndUsageInfo
InstanceAndUsageInfo(id, status, host, vms) ==
    [Id |-> id, Status |-> status,
     NodeId |-> "1", NodeMode |-> "Virtual Machine", NodeStatus |-> "Ready",
     HostAddress |-> host, InternalHostAddress |-> <<>>,
     ResourceInfo |-> <<[ProviderName |-> "provider", InstanceType |-> "rtx49-8c-nr.1"]>>,
     VirtualMachines |-> vms]

\* the remote assigns the host address once the instance left Initializing
HostOf(status) == IF status = Initializing THEN <<>> ELSE <<"127.0.0.1">>

\* the instances the remote can report under one id: every list of machines
\* while the instance comes up or runs, at most one machine once it winds down
Instances(id) ==
    {InstanceAndUsageInfo(id, st, HostOf(st), vms) :
        st \in {Initializing, Active}, vms \in VmLists} \cup
    {InstanceAndUsageInfo(id, st, HostOf(st), vms) :
        st \in {Deactivating, Inactive}, vms \in {v \in VmLists : Len(v) <= 1}}

OtherId(id) == IF id = "1" THEN "2" ELSE "1"

\* an instance of another id, which a by-id listing may also carry
OtherInstance(id) == InstanceAndUsageInfo(OtherId(id), Active, HostOf(Active), <<>>)

\* the answers of POST /api/v1/instances/list to a by-id selector: a failure,
\* or a listing with the instance absent, alone, or (for the instances
\* without machines) behind another one
ListInstancesResponses(id) ==
    {[err |-> e, Instances |-> <<>>] : e \in {ErrNotFound, ErrOther}} \cup
    {[err |-> NoErr, Instances |-> l] :
        l \in {<<>>, <<OtherInstance(id)>>} \cup
              {<<i>> : i \in Instances(id)} \cup
              {<<OtherInstance(id), i>> : i \in {x \in Instances(id) : x.VirtualMachines = <<>>}}}

\* ------------------------------------------------------------ GetInstance
\* "for _, i := range instances { if i.Id == id {...} }": the index of the
\* first listed instance of that id, 0 when there is none
RECURSIVE FirstWithId(_, _, _)
FirstWithId(instances, id, k) ==
    IF k > Len(instances) THEN 0
    ELSE IF instances[k].Id = id THEN k
    ELSE FirstWithId(instances, id, k + 1)

\* variant: an Inactive instance is returned like any other
NeverHidden(inst) == FALSE

\* "if i.Status == Inactive { return nil, ErrNotFound }"
HiddenAsNotFound(inst) == inst.Status = Inactive

\* HttpClient.GetInstance applied to the answer of the by-id listing
GetInstance(resp, id) ==
    IF resp.err # NoErr THEN [err |-> resp.err, inst |-> <<>>]
    ELSE LET k == FirstWithId(resp.Instances, id, 1)
         IN  IF k = 0 THEN [err |-> ErrNotFound, inst |-> <<>>]
             ELSE IF HiddenAsNotFound(resp.Instances[k])
                  THEN [err |-> ErrNotFound, inst |-> <<>>]
                  ELSE [err |-> NoErr, inst |-> <<resp.Instances[k]>>]

\* --------------------------------------------------- virtualMachineModel
UnknownList == [known |-> FALSE, elems |-> <<>>]

\* the plan handed to Create: computed attributes unknown, the required and
\* the write-only attributes as configured
PlanModel(recipe, datacenter, instanceType, sshKeyId, metadata) ==
    [ID |-> Unknown, Status |-> Unknown,
     NodeId |-> Unknown, NodeMode |-> Unknown, NodeStatus |-> Unknown,
     PublicIP |-> Unknown, PrivateIP |-> Unknown,
     ProviderName |-> Unknown, InstanceType |-> instanceType,
     VirtualMachines |-> UnknownList,
     Metadata |-> metadata, Recipe |-> recipe, Datacenter |-> datacenter,
     SSHKeyID |-> sshKeyId]

\* base64 payloads of metadata.startup_commands: one that decodes, one that
\* does not
B64Good == "IyEvYmluL2Jhc2gK"
B64Bad == "#!/bin/bash"

PlanRecipes == {"ubuntu", "Ubuntu", "centos", ""}
PlanKeyIds == {"1", "404"}
PlanMetadata == {<<>>, <<[StartupCommands |-> B64Good]>>, <<[StartupCommands |-> B64Bad]>>}

\* the plans tried: the working configuration with each metadata, and one
\* attribute of it varied at a time
Plans ==
    {PlanModel("ubuntu", "us-east-nc-nr-1", "rtx49-8c-nr.1", "1", md) : md \in PlanMetadata} \cup
    {PlanModel(r, "us-east-nc-nr-1", "rtx49-8c-nr.1", "1", <<>>) : r \in PlanRecipes} \cup
    {PlanModel("ubuntu", "us-east-nc-nr-1", "rtx49-8c-nr.1", k, <<>>) : k \in PlanKeyIds}

\* the virtual_machines list value built from the fetched machines
VmModels(vms) ==
    [k \in DOMAIN vms |->
        [vmid |-> vms[k].Vmid, name |-> vms[k].Name,
         username |-> IF vms[k].LoginInfo # <<>> THEN vms[k].LoginInfo[1] ELSE Null]]

\* variant: the merge rebuilds the recipe from the snapshot, which has none
populateAndRebuildRecipe(m, data) ==
    [m EXCEPT
        !.ID = data.Id,
        !.Status = data.Status,
        !.Recipe = "",
        !.VirtualMachines = [known |-> TRUE, elems |-> <<>>]]

populateModelFromInstanceResponse(m, data) ==
    [m EXCEPT
        !.ID = data.Id,
        !.Status = data.Status,
        !.NodeId = data.NodeId,
        !.NodeMode = data.NodeMode,
        !.NodeStatus = data.NodeStatus,
        !.PublicIP = IF data.HostAddress # <<>> THEN data.HostAddress[1] ELSE @,
        !.PrivateIP = IF data.InternalHostAddress # <<>>
                      THEN data.InternalHostAddress[1] ELSE @,
        !.ProviderName = IF data.ResourceInfo # <<>>
                         THEN data.ResourceInfo[1].ProviderName ELSE @,
        !.InstanceType = IF data.ResourceInfo # <<>>
                         THEN data.ResourceInfo[1].InstanceType ELSE @,
        !.VirtualMachines = [known |-> TRUE, elems |-> VmModels(data.VirtualMachines)]]

\* Create, poll branch: the test that ends the loop with success
vmReady(inst) ==
    Len(inst.VirtualMachines) > 0 /\ inst.VirtualMachines[1].Ready

InstanceReady(inst) == inst.Status = Active /\ vmReady(inst)

\* Create, exit branches: "if last != nil { populate(&plan, last) }"
MergeLast(m, lst) ==
    IF lst # <<>> THEN populateModelFromInstanceResponse(m, lst[1]) ELSE m

\* ---------------------------------------------------------------- SSH keys
SshKey(id, name, publicKey) == [Id |-> id, Name |-> name, PublicKey |-> publicKey]

TestKey == SshKey("1", "test-key", "ssh-rsa AAAA testuser")
AnotherKey == SshKey("11111", "anotheruser-key", "ssh-rsa AAAA anotheruser")
BlankKey == SshKey("1", "blank", "")

\* the answers of /api/v1/ssh-keys/list
ListSSHKeysResponses ==
    {[err |-> e, Keys |-> <<>>] : e \in {ErrNotFound, ErrOther}} \cup
    {[err |-> NoErr, Keys |-> l] :
        l \in {<<>>, <<TestKey>>, <<AnotherKey>>, <<AnotherKey, TestKey>>, <<BlankKey>>}}

\* variant: the first listed key is taken, whatever its id
MatchAnyKey(keys, id, k) == IF keys = <<>> THEN <<>> ELSE <<keys[1]>>

\* Create: "for _, k := range keys { if k.Id == id { matched = &k; break } }"
RECURSIVE MatchKeyById(_, _, _)
MatchKeyById(keys, id, k) ==
    IF k > Len(keys) THEN <<>>
    ELSE IF keys[k].Id = id THEN <<keys[k]>>
    ELSE MatchKeyById(keys, id, k + 1)

\* ------------------------------------------------------------ recipe cache
\* variant: names are compared as they are written
KeepCase(s) == s

\* strings.ToLower on the recipe names in use
ToLower(s) ==
    CASE s = "Ubuntu" -> "ubuntu"
      [] s = "UBUNTU" -> "ubuntu"
      [] s = "UBUNTU-2" -> "ubuntu-2"
      [] s = "CentOS" -> "centos"
      [] OTHER -> s

\* the "details" payload of a listed recipe: VM-shaped, of another shape
\* (decodes to the all-empty RecipeDetails1), or not decodable at all
VmDetails(url) == [kind |-> "vm", CloudinitUrl |-> url, ImageUrl |-> url]
OtherDetails == [kind |-> "other", CloudinitUrl |-> "", ImageUrl |-> ""]
BadDetails == [kind |-> "invalid", CloudinitUrl |-> "", ImageUrl |-> ""]

RecipeDetails1(cloudinit, image) == [CloudinitUrl |-> cloudinit, ImageUrl |-> image]

\* json.Unmarshal(r.Details.union, &vmDetails)
UnmarshalDetails(d) ==
    IF d.kind = "invalid" THEN [err |-> ErrOther, v |-> RecipeDetails1("", "")]
    ELSE IF d.kind = "vm" THEN [err |-> NoErr, v |-> RecipeDetails1(d.CloudinitUrl, d.ImageUrl)]
    ELSE [err |-> NoErr, v |-> RecipeDetails1("", "")]

Recipe(name, details) == [Name |-> name, Details |-> details]

\* recipe listings that hold no VM recipe: no group, or recipes of another
\* shape only
EmptyListings ==
    {[err |-> NoErr, Groups |-> g] :
        g \in {<<>>, << <<Recipe("CentOS", OtherDetails)>> >>}}

\* the answers of /api/v1/recipes/list: a failure or the recipe groups
ListRecipesResponses ==
    {[err |-> ErrOther, Groups |-> <<>>]} \cup
    {[err |-> NoErr, Groups |-> g] :
        g \in {<< <<Recipe("ubuntu", VmDetails("test")), Recipe("ubuntu-2", VmDetails("test"))>> >>,
               << <<Recipe("Ubuntu", VmDetails("test2")), Recipe("UBUNTU-2", BadDetails)>>,
                  <<Recipe("CentOS", OtherDetails)>> >>}}

MapPut(m, key, v) == [n \in DOMAIN m \cup {key} |-> IF n = key THEN v ELSE m[n]]

\* variant: only a failed decoding is skipped, an all-empty record is cached
RECURSIVE CacheDecoded(_, _, _)
CacheDecoded(cache, recipes, k) ==
    IF k > Len(recipes) THEN cache
    ELSE LET u == UnmarshalDetails(recipes[k].Details)
         IN  IF u.err # NoErr
             THEN CacheDecoded(cache, recipes, k + 1)
             ELSE CacheDecoded(MapPut(cache, ToLower(recipes[k].Name), u.v), recipes, k + 1)

RECURSIVE CacheRecipes(_, _, _)
CacheRecipes(cache, recipes, k) ==
    IF k > Len(recipes) THEN cache
    ELSE LET u == UnmarshalDetails(recipes[k].Details)
         IN  IF u.err # NoErr \/ u.v = RecipeDetails1("", "")
             THEN CacheRecipes(cache, recipes, k + 1)
             ELSE CacheRecipes(MapPut(cache, ToLower(recipes[k].Name), u.v), recipes, k + 1)

RECURSIVE CacheGroups(_, _, _)
CacheGroups(cache, groups, g) ==
    IF g > Len(groups) THEN cache
    ELSE CacheGroups(CacheRecipes(cache, groups[g], 1), groups, g + 1)

EmptyCache == [n \in {} |-> RecipeDetails1("", "")]

\* variant: a refresh replaces the cache by what the listing holds
refreshReplacing(cache, resp) ==
    IF resp.err # NoErr THEN [err |-> resp.err, cache |-> cache]
    ELSE [err |-> NoErr, cache |-> CacheGroups(EmptyCache, resp.Groups, 1)]

\* HttpClient.refreshVMRecipeCache against the answer of the recipe listing
refreshVMRecipeCache(cache, resp) ==
    IF resp.err # NoErr THEN [err |-> resp.err, cache |-> cache]
    ELSE [err |-> NoErr, cache |-> CacheGroups(cache, resp.Groups, 1)]

\* findVMRecipe, "found := c.vmRecipies[recipe]" and, after a refresh,
\* "found = c.vmRecipies[recipe]": one read of the map
Lookup(cache, recipe) == IF recipe \in DOMAIN cache THEN <<cache[recipe]>> ELSE <<>>

\* variant: a miss is final, the cache is not refreshed
MissIsFinal(f) == FALSE

\* findVMRecipe, "if found == nil": a miss has the cache refreshed
MissRefreshes(f) == f = <<>>

\* variant: a failed refresh is passed over and the map read again
RefreshErrorHidden(l) == FALSE

\* findVMRecipe, "if err := c.refreshVMRecipeCache(); err != nil { return nil, err }"
RefreshFailed(l) == l.err # NoErr

\* the caches a constructed client can hold: NewCustom refreshed an empty
\* cache and rejected an empty result
InitialCaches ==
    {c \in {refreshVMRecipeCache(EmptyCache, r).cache :
                r \in {x \in ListRecipesResponses : x.err = NoErr}} :
        DOMAIN c # {}}

\* --------------------------------------------------- RentPublicInstanceVM
\* base64.StdEncoding.Decode followed by strings.TrimSpace
DecodeCommands(commands) ==
    IF commands = B64Good THEN [err |-> NoErr, out |-> "#!/bin/bash"]
    ELSE [err |-> ErrOther, out |-> ""]

\* the answers of POST /api/v1/instances/rent
RentResponses ==
    {[err |-> e, InstanceIds |-> <<>>] : e \in {ErrNotFound, ErrOther}} \cup
    {[err |-> NoErr, InstanceIds |-> ids] : ids \in SeqsUpTo(InstanceIdSet, MaxIds)}

\* variant: the arguments are not validated before the recipe is looked up
RentArgsUnchecked(recipe, datacenter, instance, commands, pubKeys) == NoErr

\* HttpClient.RentPublicInstanceVM, the checks of the arguments that precede
\* the lookup of the recipe: the error returned, or none
RentArgsError(recipe, datacenter, instance, commands, pubKeys) ==
    IF recipe = "" THEN "no image specified"
    ELSE IF Len(pubKeys) = 0 \/ "" \in Range(pubKeys) THEN "no ssh key specified"
    ELSE IF datacenter = "" THEN "empty datacenter"
    ELSE IF instance = "" THEN "empty instance"
    ELSE IF commands # "" /\ DecodeCommands(commands).err # NoErr
    THEN "failed to decode base64 encoded startup commands"
    ELSE NoErr

\* every answer of the recipe listing
RecipeListings == ListRecipesResponses \cup EmptyListings

\* the arguments of one call of RentPublicInstanceVM
RentArgs(recipe, datacenter, instance, commands, pubKeys) ==
    [name |-> "rent", recipe |-> recipe, datacenter |-> datacenter,
     instance |-> instance, commands |-> commands, pubKeys |-> pubKeys]

\* the body of the rent request built from the arguments and the details of
\* the recipe
RentRequest(details, a) ==
    [Details |-> details,
     CloudinitCommands |-> IF a.commands # "" THEN DecodeCommands(a.commands).out ELSE "",
     PublicKeys |-> a.pubKeys, Datacenter |-> a.datacenter,
     InstanceType |-> a.instance]

\* =================================================================== state
VARIABLES
    pc,          \* position of the running operation; "done" when none runs
    op,          \* the operation that runs or ran last
    plan,        \* Create: the model being built from the plan
    state,       \* tracked state of the virtual machine: <<>> or <<model>>
    matched,     \* Create: the SSH key matched by id
    id,          \* the id the operation works on (Create: the rented id)
    last,        \* Create: the last fetched snapshot, <<>> or <<instance>>
    diags,       \* the error diagnostics of the operation
    deadline,    \* Create: the provisioning timer has fired
    cancelled,   \* the context of the operation is done
    vmRecipies,  \* the recipe cache of the client
    keyPlan,     \* SSH key Create: the model being built from the plan
    keyState,    \* tracked state of the SSH key: <<>> or <<model>>
    resp,        \* history: the answer to the latest by-id listing
    got,         \* history: what the latest client call returned
    rented,      \* history: <<>> or <<ids returned by the rent call>>
    sent,        \* history: calls of the client's methods by the operation,
                 \* per endpoint; the attempts of one call are in tried
    retries,     \* the client's retry count (c.retries)
    tried,       \* execute: the outcomes of the attempts made, in order
    slept,       \* execute: the backoffs slept, in seconds, in order
    left,        \* execute: the loop variable "retries" of the retry loop
    parsed,      \* execute: <<>> or <<what the caller's parser returned>>
    result,      \* execute: what the call returned
    client,      \* the client object: "none", "ready" or "failed"
    call,        \* the arguments of the running client call
    ret,         \* what the client call returned, and the requests it issued
    heard,       \* history: the remote's answers to the client call, in order
    flows,       \* concurrent recipe lookups on the shared client
    dataState,   \* state of the SSH-key data source: <<>> or <<model>>
    found        \* findVMRecipe: what the latest read of the map returned

requestVars == <<retries, tried, slept, left, parsed, result>>

clientVars == <<client, call, ret, heard, found>>

\* what the operations of the two resources leave alone
apiVars == <<requestVars, clientVars, flows, dataState>>

vars == <<pc, op, plan, state, matched, id, last, diags, deadline, cancelled,
          vmRecipies, keyPlan, keyState, resp, got, rented, sent, apiVars>>

keyVars == <<keyPlan, keyState>>

\* Each call counted here runs the retry loop of DoRequestWithApiToken, which
\* sends the request again after an attempt that got no response: the
\* attempts of a call are the steps DoFirst and Retry, recorded in tried.
NoRequests == [keys |-> 0, recipes |-> 0, rent |-> 0, list |-> 0, terminate |-> 0,
               keyAdd |-> 0, keyDelete |-> 0, auth |-> 0]

Bump(n) == Min(n + 1, SentCap)

NoPlan == PlanModel("", "", "", "", <<>>)
NoKeyPlan == [ID |-> "", Name |-> "", PublicKey |-> ""]
NoResp == [err |-> "none", Instances |-> <<>>]
NoGot == [err |-> "none", inst |-> <<>>]

\* execute has returned nothing yet
NoResult ==
    [kind |-> "none", err |-> NoErr, value |-> "", wraps |-> "", retried |-> 0,
     url |-> "", status |-> 0, body |-> ""]

NoCall == [name |-> "none"]
NoRet == [err |-> "none"]

\* no lookup runs on the shared client
NoFlows == <<>>

\* provider Configure: cloudriftapi.WithRetryableHttpClient(4)
ProviderRetries == 4

\* nothing runs; the client is in the given condition, the virtual machine
\* tracked as st
IdleWith(c, r, cache, st) ==
    /\ pc = "done"
    /\ op = "none"
    /\ plan = NoPlan
    /\ state = st
    /\ matched = <<>>
    /\ id = ""
    /\ last = <<>>
    /\ diags = <<>>
    /\ deadline = FALSE
    /\ cancelled = FALSE
    /\ vmRecipies = cache
    /\ keyPlan = NoKeyPlan
    /\ keyState = <<>>
    /\ resp = NoResp
    /\ got = NoGot
    /\ rented = <<>>
    /\ sent = NoRequests
    /\ retries = r
    /\ tried = <<>>
    /\ slept = <<>>
    /\ left = 0
    /\ parsed = <<>>
    /\ result = NoResult
    /\ client = c
    /\ call = NoCall
    /\ ret = NoRet
    /\ heard = <<>>
    /\ flows = NoFlows
    /\ dataState = <<>>
    /\ found = <<>>

\* nothing runs and nothing is tracked
Idle(c, r, cache) == IdleWith(c, r, cache, <<>>)

\* the provider is configured: its client was constructed with the
\* provider's retry count and holds a primed recipe cache
Init == \E cache \in InitialCaches : Idle("ready", ProviderRetries, cache)

\* what every operation starts from: its plan, a fresh context and response,
\* an empty history
Begin(name, first, p, kp, target) ==
    /\ pc = "done"
    /\ plan' = p
    /\ keyPlan' = kp
    /\ id' = target
    /\ op' = name
    /\ pc' = first
    /\ diags' = <<>>
    /\ deadline' = FALSE
    /\ cancelled' = FALSE
    /\ matched' = <<>>
    /\ last' = <<>>
    /\ resp' = NoResp
    /\ got' = NoGot
    /\ rented' = <<>>
    /\ sent' = NoRequests

\* ctx.Err() of a context that is done
CtxErr == "context canceled"

\* resp.Diagnostics.AddError(summary, detail): detail holds the values the
\* detail text is built from, in the order they appear in it
AddError(summary, detail) ==
    diags' = Append(diags, [summary |-> summary, detail |-> detail])

\* ============================================================ findVMRecipe
\* The lookup of a recipe runs in steps: the map is read, on a miss the
\* recipe listing is requested and awaited, its recipes are stored into the
\* map and the map is read again. The map belongs to the client, which the
\* operations of the provider share, so another operation may store into it
\* between the steps of this one.

\* the name looked up: RentPublicInstanceVM lower-cases it first
LookupName == IF op = "find" THEN call.recipe ELSE ToLower(call.recipe)

\* the running call returns err to its caller: Create reports it, the client
\* call returns it
CallFails(err, names) ==
    /\ pc' = "done"
    /\ IF op = "create"
       THEN /\ AddError("Error creating Virtual Machine", <<err>>)
            /\ ret' = ret
       ELSE /\ diags' = diags
            /\ ret' = IF op = "find"
                      THEN [err |-> err, found |-> <<>>, named |-> names,
                            requests |-> sent.recipes]
                      ELSE [err |-> err, InstanceIds |-> <<>>, request |-> <<>>,
                            recipeRequests |-> sent.recipes, rentRequests |-> 0]

\* findVMRecipe, "if found == nil { return nil, fmt.Errorf("recipe %s not
\* found", recipe) }; return found, nil": a lookup by itself returns, a rent
\* call goes on to send the rent request
LookupEnds(f) ==
    IF f = <<>> THEN CallFails("recipe not found", {LookupName})
    ELSE /\ diags' = diags
         /\ IF op = "find"
            THEN /\ ret' = [err |-> NoErr, found |-> f, named |-> {},
                            requests |-> sent.recipes]
                 /\ pc' = "done"
            ELSE /\ ret' = ret
                 /\ pc' = IF op = "create" THEN "c_rented" ELSE "t_rent"

\* the rent request is counted when the recipe was found for a rent call
RentCounted(f) ==
    IF f # <<>> /\ op # "find" THEN [sent EXCEPT !.rent = Bump(@)] ELSE sent

\* findVMRecipe: "found := c.vmRecipies[recipe]"; a miss sends the request
\* of the recipe listing
FindRead ==
    /\ pc = "l_read"
    /\ found' = Lookup(vmRecipies, LookupName)
    /\ IF MissRefreshes(found')
       THEN /\ pc' = "l_list"
            /\ sent' = [sent EXCEPT !.recipes = Bump(@)]
            /\ UNCHANGED <<ret, diags>>
       ELSE /\ sent' = RentCounted(found')
            /\ LookupEnds(found')
    /\ UNCHANGED <<op, plan, state, matched, id, last, deadline, cancelled,
                   vmRecipies, keyVars, resp, got, rented, requestVars,
                   client, call, heard, flows, dataState>>

\* refreshVMRecipeCache: "recipes, err := c.ListRecipes()" is answered
FindListed ==
    /\ pc = "l_list"
    /\ \E l \in RecipeListings :
         /\ heard' = <<l>>
         /\ IF RefreshFailed(l)
            THEN CallFails(l.err, {})
            ELSE /\ pc' = "l_store"
                 /\ UNCHANGED <<ret, diags>>
    /\ UNCHANGED <<op, plan, state, matched, id, last, deadline, cancelled,
                   vmRecipies, keyVars, resp, got, rented, sent, requestVars,
                   client, call, found, flows, dataState>>

\* refreshVMRecipeCache: the recipes of the listing are stored into the map;
\* findVMRecipe: "found = c.vmRecipies[recipe]"
FindStored ==
    /\ pc = "l_store"
    /\ vmRecipies' = refreshVMRecipeCache(vmRecipies, heard[1]).cache
    /\ found' = Lookup(vmRecipies', LookupName)
    /\ sent' = RentCounted(found')
    /\ LookupEnds(found')
    /\ UNCHANGED <<op, plan, state, matched, id, last, deadline, cancelled,
                   keyVars, resp, got, rented, requestVars,
                   client, call, heard, flows, dataState>>

\* another operation on the same client refreshes the cache while this one
\* is between two of its steps
OtherRefresh ==
    /\ pc \in {"l_read", "l_list", "l_store", "t_rent", "c_rented"}
    /\ \E l \in RecipeListings :
         /\ l.err = NoErr
         /\ vmRecipies' = refreshVMRecipeCache(vmRecipies, l).cache
    /\ vmRecipies' # vmRecipies
    /\ UNCHANGED <<pc, op, plan, state, matched, id, last, diags, deadline, cancelled,
                   keyVars, resp, got, rented, sent, requestVars,
                   clientVars, flows, dataState>>

\* ====================================================== virtual machine: Create
CreateStart ==
    /\ state = <<>>
    /\ \E p \in Plans : Begin("create", "c_listkeys", p, NoKeyPlan, "")
    /\ UNCHANGED <<state, vmRecipies, keyState>>
    /\ UNCHANGED apiVars

\* r.client.ListSSHKeys() and the search of the key named by the plan
CreateListKeys ==
    /\ pc = "c_listkeys"
    /\ \E r \in ListSSHKeysResponses :
         /\ sent' = [sent EXCEPT !.keys = Bump(@)]
         /\ IF r.err # NoErr
            THEN /\ AddError("Error reading CloudRift SSH Keys", <<r.err>>)
                 /\ pc' = "done"
                 /\ matched' = matched
            ELSE LET m == MatchKeyById(r.Keys, plan.SSHKeyID, 1)
                 IN  IF m = <<>>
                     THEN /\ AddError("Error fetching Virtual Machine SSH Key", <<plan.SSHKeyID>>)
                          /\ pc' = "done"
                          /\ matched' = matched
                     ELSE /\ matched' = m
                          /\ pc' = "c_rent"
                          /\ diags' = diags
    /\ UNCHANGED <<op, plan, state, id, last, deadline, cancelled, vmRecipies,
                   keyVars, resp, got, rented>>
    /\ UNCHANGED apiVars

\* Create: "if len(ids.Data.InstanceIds) < 1 { error; return }"
RentIdsRejected(ids) == Len(ids) < 1

\* r.client.RentPublicInstanceVM is called: its arguments are checked, then
\* the recipe is looked up
CreateRent ==
    /\ pc = "c_rent"
    /\ LET commands == IF plan.Metadata # <<>>
                       THEN plan.Metadata[1].StartupCommands ELSE ""
           keys == <<matched[1].PublicKey>>
           err == RentArgsError(plan.Recipe, plan.Datacenter, plan.InstanceType,
                                commands, keys)
       IN  /\ call' = RentArgs(plan.Recipe, plan.Datacenter, plan.InstanceType,
                               commands, keys)
           /\ IF err # NoErr
              THEN /\ AddError("Error creating Virtual Machine", <<err>>)
                   /\ pc' = "done"
              ELSE /\ pc' = "l_read"
                   /\ diags' = diags
    /\ found' = <<>>
    /\ heard' = <<>>
    /\ rented' = <<>>
    /\ UNCHANGED <<op, plan, state, matched, id, last, deadline, cancelled,
                   vmRecipies, keyVars, resp, got, sent, requestVars,
                   client, ret, flows, dataState>>

\* the rent request is answered: the check of the returned ids and the
\* arming of the provisioning timer
CreateRented ==
    /\ pc = "c_rented"
    /\ \E rentResp \in RentResponses :
         LET ids == IF rentResp.err = NoErr THEN rentResp.InstanceIds ELSE <<>>
         IN  /\ rented' = IF rentResp.err = NoErr THEN <<ids>> ELSE <<>>
             /\ IF rentResp.err # NoErr \/ RentIdsRejected(ids)
                THEN /\ AddError("Error creating Virtual Machine",
                                 IF rentResp.err # NoErr THEN <<rentResp.err>> ELSE <<>>)
                     /\ pc' = "done"
                     /\ UNCHANGED <<plan, id>>
                ELSE /\ id' = ids[1]
                     /\ plan' = [plan EXCEPT !.ID = ids[1]]
                     /\ pc' = "c_select"
                     /\ diags' = diags
    /\ last' = <<>>
    /\ deadline' = FALSE
    /\ UNCHANGED <<op, state, matched, cancelled, vmRecipies, keyVars, resp, got, sent>>
    /\ UNCHANGED apiVars

\* variant: the signals are looked at wherever the operation is
AtAnyStep(p, sel) == p # "done"

\* the timer and the context are looked at by the select of the poll loop
\* and nowhere else
AtSelect(p, sel) == p = sel

\* variant: the select never takes the provisioning timer
TimeoutNeverSelectable == FALSE

\* the channel of the provisioning timer is ready once the timer has fired
TimeoutSelectable == deadline

\* select, "case <-provisioningTimeout"
CreateTimeout ==
    /\ AtSelect(pc, "c_select")
    /\ TimeoutSelectable
    /\ plan' = MergeLast(plan, last)
    /\ state' = <<plan'>>
    /\ AddError("Provisioning timeout reached", <<>>)
    /\ pc' = "done"
    /\ UNCHANGED <<op, matched, id, last, deadline, cancelled, vmRecipies, keyVars,
                   resp, got, rented, sent>>
    /\ UNCHANGED apiVars

\* variant: the select never takes the cancellation
CancelNeverSelectable == FALSE

\* ctx.Done() is ready once the context is cancelled
CancelSelectable == cancelled

\* select, "case <-ctx.Done()"
CreateCanceled ==
    /\ AtSelect(pc, "c_select")
    /\ CancelSelectable
    /\ plan' = MergeLast(plan, last)
    /\ state' = <<plan'>>
    /\ AddError("Polling Interval Canceled", <<CtxErr>>)
    /\ pc' = "done"
    /\ UNCHANGED <<op, matched, id, last, deadline, cancelled, vmRecipies, keyVars,
                   resp, got, rented, sent>>
    /\ UNCHANGED apiVars

\* variant: an expired deadline does not keep the tick from being taken
TickUnlessCancelled == ~cancelled

\* variant: the tick may be taken whatever else is ready
TickAlwaysSelectable == TRUE

\* The poll timer is armed by time.After on entry to the select, so it is
\* not ready while the select finds another channel ready: the tick is taken
\* only when it fires before the deadline and the cancellation.
TickSelectable == ~deadline /\ ~cancelled

\* select, "case <-time.After(InstancePollingInterval)": the fetch is sent
CreateTick ==
    /\ pc = "c_select"
    /\ TickSelectable
    /\ pc' = "c_fetch"
    /\ sent' = [sent EXCEPT !.list = Bump(@)]
    /\ UNCHANGED <<op, plan, state, matched, id, last, diags, deadline, cancelled,
                   vmRecipies, keyVars, resp, got, rented>>
    /\ UNCHANGED apiVars

\* Create, poll branch: a failed fetch persists unless it is ErrNotFound
PersistOnPollError(e) == e # ErrNotFound

\* variant: the first snapshot is kept
KeepFirst(lst, current) == IF lst = <<>> THEN current ELSE lst

\* Create, poll branch: "last = current"
NextLast(lst, current) == current

\* variant: a ready snapshot does not end the loop once the deadline has
\* expired or the cancellation was signalled
ReadyUnlessSignalled(inst) == InstanceReady(inst) /\ ~deadline /\ ~cancelled

\* Create, poll branch: "if last.Status == cloudriftapi.Active && vmReady",
\* evaluated in the tick case before the loop selects again
ReadyEndsCreate(inst) == InstanceReady(inst)

\* the answer to the fetch: error handling, "last = current", readiness
CreatePoll ==
    /\ pc = "c_fetch"
    /\ \E r \in ListInstancesResponses(id) :
         LET g == GetInstance(r, id)
         IN  /\ resp' = r
             /\ got' = g
             /\ IF g.err # NoErr
                THEN /\ IF PersistOnPollError(g.err)
                        THEN /\ plan' = MergeLast(plan, last)
                             /\ state' = <<plan'>>
                        ELSE UNCHANGED <<plan, state>>
                     /\ AddError("Error creating Virtual Machine", <<id, g.err>>)
                     /\ pc' = "done"
                     /\ last' = last
                ELSE /\ last' = NextLast(last, g.inst)
                     /\ diags' = diags
                     /\ IF ReadyEndsCreate(last'[1])
                        THEN /\ plan' = populateModelFromInstanceResponse(plan, last'[1])
                             /\ state' = <<plan'>>
                             /\ pc' = "done"
                        ELSE /\ pc' = "c_select"
                             /\ UNCHANGED <<plan, state>>
    /\ UNCHANGED <<op, matched, id, deadline, cancelled, vmRecipies, keyVars,
                   rented, sent>>
    /\ UNCHANGED apiVars

\* the provisioning timer (28 minutes) fires; it is armed once the rent call
\* has returned an id
DeadlineFires ==
    /\ pc \in {"c_select", "c_fetch"}
    /\ ~deadline
    /\ deadline' = TRUE
    /\ UNCHANGED <<pc, op, plan, state, matched, id, last, diags, cancelled,
                   vmRecipies, keyVars, resp, got, rented, sent>>
    /\ UNCHANGED apiVars

\* the caller cancels the context of the running operation
Cancel ==
    /\ pc # "done"
    /\ ~cancelled
    /\ cancelled' = TRUE
    /\ UNCHANGED <<pc, op, plan, state, matched, id, last, diags, deadline,
                   vmRecipies, keyVars, resp, got, rented, sent>>
    /\ UNCHANGED apiVars

\* ======================================================== virtual machine: Read
ReadStart ==
    /\ state # <<>>
    /\ Begin("read", "r_fetch", NoPlan, NoKeyPlan, state[1].ID)
    /\ UNCHANGED <<state, vmRecipies, keyState>>
    /\ UNCHANGED apiVars

\* the state ImportStatePassthroughID leaves: the id, every other attribute
\* null
ImportedModel(i) ==
    [ID |-> i, Status |-> Null,
     NodeId |-> Null, NodeMode |-> Null, NodeStatus |-> Null,
     PublicIP |-> Null, PrivateIP |-> Null,
     ProviderName |-> Null, InstanceType |-> Null,
     VirtualMachines |-> [known |-> TRUE, elems |-> Null],
     Metadata |-> <<>>, Recipe |-> Null, Datacenter |-> Null,
     SSHKeyID |-> Null]

\* virtualMachineResource.ImportState: the id is passed through to the
\* state; the framework then reads the resource
ImportState ==
    /\ state = <<>>
    /\ \E i \in InstanceIdSet :
         /\ Begin("import", "r_fetch", NoPlan, NoKeyPlan, i)
         /\ state' = <<ImportedModel(i)>>
    /\ UNCHANGED <<vmRecipies, keyState>>
    /\ UNCHANGED apiVars

\* variant: Read treats ErrNotFound like any other error
ReadNeverRemoves(e) == FALSE

\* Read: errors.Is(err, cloudriftapi.ErrNotFound) removes the resource
ReadRemoves(e) == e = ErrNotFound

\* the single fetch of Read and what it does to the tracked state
ReadFetch ==
    /\ pc = "r_fetch"
    /\ \E r \in ListInstancesResponses(id) :
         LET g == GetInstance(r, id)
         IN  /\ resp' = r
             /\ got' = g
             /\ IF g.err # NoErr
                THEN IF ReadRemoves(g.err)
                     THEN /\ state' = <<>>
                          /\ diags' = diags
                     ELSE /\ AddError("Error reading CloudRift Virtual Machine", <<id, g.err>>)
                          /\ state' = state
                ELSE /\ state' = <<populateModelFromInstanceResponse(state[1], g.inst[1])>>
                     /\ diags' = diags
    /\ sent' = [sent EXCEPT !.list = Bump(@)]
    /\ pc' = "done"
    /\ UNCHANGED <<op, plan, matched, id, last, deadline, cancelled, vmRecipies,
                   keyVars, rented>>
    /\ UNCHANGED apiVars

\* ====================================================== virtual machine: Delete
DeleteStart ==
    /\ state # <<>>
    /\ Begin("delete", "d_terminate", NoPlan, NoKeyPlan, state[1].ID)
    /\ UNCHANGED <<state, vmRecipies, keyState>>
    /\ UNCHANGED apiVars

\* the answers of POST /api/v1/instances/terminate and of
\* DELETE /api/v1/ssh-keys/{id}
ErrorResponses == {NoErr, ErrNotFound, ErrOther}

\* variant: Delete surfaces ErrNotFound of the terminate call
DeleteToleratesNothing(e) == FALSE

\* variant: Delete passes over every error of the terminate request
DeleteToleratesAll(e) == TRUE

\* Delete: errors.Is(err, cloudriftapi.ErrNotFound) is tolerated
DeleteTolerates(e) == e = ErrNotFound

\* r.client.TerminateInstance(id); a Delete that returns without an error
\* makes the framework drop the resource from the tracked state
DeleteTerminate ==
    /\ pc = "d_terminate"
    /\ \E e \in ErrorResponses :
         /\ got' = [err |-> e, inst |-> <<>>]
         /\ IF e # NoErr
            THEN IF DeleteTolerates(e)
                 THEN /\ pc' = "done"
                      /\ state' = <<>>
                      /\ diags' = diags
                 ELSE /\ AddError("Error Delete Virtual Machine", <<id, e>>)
                      /\ pc' = "done"
                      /\ state' = state
            ELSE /\ pc' = "d_select"
                 /\ UNCHANGED <<state, diags>>
    /\ sent' = [sent EXCEPT !.terminate = Bump(@)]
    /\ UNCHANGED <<op, plan, matched, id, last, deadline, cancelled, vmRecipies,
                   keyVars, resp, rented>>
    /\ UNCHANGED apiVars

\* select, "case <-ctx.Done()"
DeleteCanceled ==
    /\ AtSelect(pc, "d_select")
    /\ CancelSelectable
    /\ AddError("Polling Interval Canceled", <<CtxErr>>)
    /\ pc' = "done"
    /\ UNCHANGED <<op, plan, state, matched, id, last, deadline, cancelled,
                   vmRecipies, keyVars, resp, got, rented, sent>>
    /\ UNCHANGED apiVars

\* select, "case <-time.After(InstancePollingInterval)": the fetch is sent
DeleteTick ==
    /\ pc = "d_select"
    /\ TickSelectable
    /\ pc' = "d_fetch"
    /\ sent' = [sent EXCEPT !.list = Bump(@)]
    /\ UNCHANGED <<op, plan, state, matched, id, last, diags, deadline, cancelled,
                   vmRecipies, keyVars, resp, got, rented>>
    /\ UNCHANGED apiVars

\* variant: the Delete loop treats ErrNotFound like any other error
NeverDestroyed(e) == FALSE

\* Delete, poll branch: errors.Is(err, cloudriftapi.ErrNotFound) ends the wait
DeleteDestroyed(e) == e = ErrNotFound

\* the answer to the fetch of the Delete loop
DeletePoll ==
    /\ pc = "d_fetch"
    /\ \E r \in ListInstancesResponses(id) :
         LET g == GetInstance(r, id)
         IN  /\ resp' = r
             /\ got' = g
             /\ IF g.err # NoErr
                THEN IF DeleteDestroyed(g.err)
                     THEN /\ pc' = "done"
                          /\ state' = <<>>
                          /\ diags' = diags
                     ELSE /\ AddError("Client Error", <<g.err>>)
                          /\ pc' = "done"
                          /\ state' = state
                ELSE /\ pc' = "d_select"
                     /\ UNCHANGED <<state, diags>>
    /\ UNCHANGED <<op, plan, matched, id, last, deadline, cancelled, vmRecipies,
                   keyVars, rented, sent>>
    /\ UNCHANGED apiVars

\* ================================================================ SSH key
sshKeyModel(keyId, name, publicKey) == [ID |-> keyId, Name |-> name, PublicKey |-> publicKey]

KeyPlans ==
    {sshKeyModel(Unknown, n, k) :
        n \in {"", "anotheruser-key"}, k \in {"", "ssh-rsa AAAA anotheruser"}}

\* a public key as the server may store it: without its comment
StoredKey == "ssh-rsa AAAA"

\* the answers of POST /api/v1/ssh-keys/add: a failure, or the stored key
\* under the id the server assigned, echoed as sent or as stored
AddSSHKeyResponses(name, publicKey) ==
    {[err |-> ErrOther, PublicKey |-> SshKey("", "", "")],
     [err |-> NoErr, PublicKey |-> SshKey("11111", name, publicKey)],
     [err |-> NoErr, PublicKey |-> SshKey("11111", name, StoredKey)]}

KeyCreateStart ==
    /\ keyState = <<>>
    /\ \E p \in KeyPlans : Begin("keycreate", "k_add", NoPlan, p, "")
    /\ UNCHANGED <<state, vmRecipies, keyState>>
    /\ UNCHANGED apiVars

\* variant: no plan is rejected before the request
KeyPlanNeverRejected(p) == FALSE

\* sshKeyResource.Create: "if plan.Name.ValueString() == """ and
\* "if plan.PublicKey.ValueString() == """
KeyPlanRejected(p) == p.Name = "" \/ p.PublicKey = ""

\* sshKeyResource.Create: the two emptiness checks, then AddSSHKey
KeyCreate ==
    /\ pc = "k_add"
    /\ IF KeyPlanRejected(keyPlan)
       THEN /\ AddError("Error creating SSH key",
                        <<IF keyPlan.Name = "" THEN "Name is defined but empty"
                          ELSE "Public key is defined but empty">>)
            /\ UNCHANGED <<keyPlan, keyState, sent, got>>
       ELSE \E r \in AddSSHKeyResponses(keyPlan.Name, keyPlan.PublicKey) :
              /\ sent' = [sent EXCEPT !.keyAdd = Bump(@)]
              /\ got' = [err |-> r.err,
                         inst |-> IF r.err = NoErr THEN <<r.PublicKey>> ELSE <<>>]
              /\ IF r.err # NoErr
                 THEN /\ AddError("Error creating SSH key", <<r.err>>)
                      /\ UNCHANGED <<keyPlan, keyState>>
                 ELSE /\ keyPlan' = sshKeyModel(r.PublicKey.Id, r.PublicKey.Name,
                                                r.PublicKey.PublicKey)
                      /\ keyState' = <<keyPlan'>>
                      /\ diags' = diags
    /\ pc' = "done"
    /\ UNCHANGED <<op, plan, state, matched, id, last, deadline, cancelled,
                   vmRecipies, resp, rented>>
    /\ UNCHANGED apiVars

KeyReadStart ==
    /\ keyState # <<>>
    /\ Begin("keyread", "k_list", NoPlan, NoKeyPlan, keyState[1].ID)
    /\ UNCHANGED <<state, vmRecipies, keyState>>
    /\ UNCHANGED apiVars

\* the ids a key is imported under
ImportIds == {"11111", "404"}

\* sshKeyResource.ImportState: the id is passed through to the state, every
\* other attribute is null; the framework then reads the resource
KeyImport ==
    /\ keyState = <<>>
    /\ \E i \in ImportIds :
         /\ Begin("keyimport", "k_list", NoPlan, NoKeyPlan, i)
         /\ keyState' = <<sshKeyModel(i, Null, Null)>>
    /\ UNCHANGED <<state, vmRecipies>>
    /\ UNCHANGED apiVars

\* variant: Read leaves the tracked attributes as they are
KeepTracked(st, m) == st

\* sshKeyResource.Read: "state.ID = ...; state.Name = ...; state.PublicKey = ..."
RefreshedKey(st, m) == [st EXCEPT !.ID = m.Id, !.Name = m.Name, !.PublicKey = m.PublicKey]

\* sshKeyResource.Read: list the keys, match by id, refresh or remove
KeyRead ==
    /\ pc = "k_list"
    /\ \E r \in ListSSHKeysResponses :
         /\ got' = [err |-> r.err, inst |-> r.Keys]
         /\ IF r.err # NoErr
            THEN /\ AddError("Error reading CloudRift SSH Keys", <<r.err>>)
                 /\ keyState' = keyState
            ELSE LET m == MatchKeyById(r.Keys, id, 1)
                 IN  /\ diags' = diags
                     /\ IF m = <<>>
                        THEN keyState' = <<>>
                        ELSE keyState' = <<RefreshedKey(keyState[1], m[1])>>
    /\ sent' = [sent EXCEPT !.keys = Bump(@)]
    /\ pc' = "done"
    /\ UNCHANGED <<op, plan, state, matched, id, last, deadline, cancelled,
                   vmRecipies, keyPlan, resp, rented>>
    /\ UNCHANGED apiVars

KeyDeleteStart ==
    /\ keyState # <<>>
    /\ Begin("keydelete", "k_delete", NoPlan, NoKeyPlan, keyState[1].ID)
    /\ UNCHANGED <<state, vmRecipies, keyState>>
    /\ UNCHANGED apiVars

\* sshKeyResource.Delete: errors.Is(err, cloudriftapi.ErrNotFound) is tolerated
KeyDeleteTolerates(e) == e = ErrNotFound

\* sshKeyResource.Delete; a Delete that returns without an error makes the
\* framework drop the resource from the tracked state
KeyDelete ==
    /\ pc = "k_delete"
    /\ \E e \in ErrorResponses :
         /\ got' = [err |-> e, inst |-> <<>>]
         /\ IF e # NoErr /\ ~KeyDeleteTolerates(e)
            THEN /\ AddError("Error Delete SSH Key", <<id, e>>)
                 /\ keyState' = keyState
            ELSE /\ keyState' = <<>>
                 /\ diags' = diags
    /\ sent' = [sent EXCEPT !.keyDelete = Bump(@)]
    /\ pc' = "done"
    /\ UNCHANGED <<op, plan, state, matched, id, last, deadline, cancelled,
                   vmRecipies, keyPlan, resp, rented>>
    /\ UNCHANGED apiVars

\* ------------------------------------------------------------------ Update
\* variant: Update reports nothing
UpdateAccepted(what) == <<>>

\* resp.Diagnostics.AddError("Unsupported Method", "Update is not supported for ...")
UpdateUnsupported(what) ==
    <<[summary |-> "Unsupported Method", detail |-> <<what>>]>>

\* Terraform plans a change in place of a tracked virtual machine
UpdateStart ==
    /\ state # <<>>
    /\ \E p \in Plans : Begin("update", "u_update", p, NoKeyPlan, state[1].ID)
    /\ UNCHANGED <<state, vmRecipies, keyState>>
    /\ UNCHANGED apiVars

\* virtualMachineResource.Update: the error is all it does
Update ==
    /\ pc = "u_update"
    /\ diags' = diags \o UpdateUnsupported("CloudRfit Virtual Machine Instance")
    /\ pc' = "done"
    /\ UNCHANGED <<op, plan, state, matched, id, last, deadline, cancelled,
                   vmRecipies, keyPlan, keyState, resp, got, rented, sent, apiVars>>

\* Terraform plans a change in place of a tracked SSH key
KeyUpdateStart ==
    /\ keyState # <<>>
    /\ \E p \in KeyPlans : Begin("keyupdate", "k_update", NoPlan, p, keyState[1].ID)
    /\ UNCHANGED <<state, vmRecipies, keyState>>
    /\ UNCHANGED apiVars

\* sshKeyResource.Update: the error is all it does
KeyUpdate ==
    /\ pc = "k_update"
    /\ diags' = diags \o UpdateUnsupported("CloudRift SSH Key")
    /\ pc' = "done"
    /\ UNCHANGED <<op, plan, state, matched, id, last, deadline, cancelled,
                   vmRecipies, keyPlan, keyState, resp, got, rented, sent, apiVars>>

\* ---------------------------------------------------- SSH-key data source
\* the names a data source is configured with
DataNames == {"test-key", "anotheruser-key", "blank", "missing-key"}

\* a key list that holds one name twice
TwiceListed == <<TestKey, SshKey("2", "test-key", "ssh-ed25519 BBBB testuser")>>

\* the config of the data source: the name, id and public key being computed
KeyDataStart ==
    /\ \E n \in DataNames : Begin("keydata", "ds_list", NoPlan, sshKeyModel(Null, n, Null), "")
    /\ dataState' = <<>>
    /\ UNCHANGED <<state, vmRecipies, keyState, requestVars, clientVars, flows>>

\* variant: the last listed key of the name is taken
RECURSIVE MatchLastByName(_, _, _)
MatchLastByName(keys, name, k) ==
    IF k > Len(keys) THEN <<>>
    ELSE LET later == MatchLastByName(keys, name, k + 1)
         IN  IF later # <<>> THEN later
             ELSE IF keys[k].Name = name THEN <<keys[k]>> ELSE <<>>

\* sshKeyDataSource.Read: "for _, k := range keys { if k.Name == ... { ...; return } }"
RECURSIVE MatchKeyByName(_, _, _)
MatchKeyByName(keys, name, k) ==
    IF k > Len(keys) THEN <<>>
    ELSE IF keys[k].Name = name THEN <<keys[k]>>
    ELSE MatchKeyByName(keys, name, k + 1)

\* sshKeyDataSource.Read: list the keys, take the first of the name
KeyDataRead ==
    /\ pc = "ds_list"
    /\ \E r \in ListSSHKeysResponses \cup {[err |-> NoErr, Keys |-> TwiceListed]} :
         /\ got' = [err |-> r.err, inst |-> r.Keys]
         /\ IF r.err # NoErr
            THEN /\ AddError("Error reading CloudRift SSH Keys", <<r.err>>)
                 /\ UNCHANGED <<keyPlan, dataState>>
            ELSE LET m == MatchKeyByName(r.Keys, keyPlan.Name, 1)
                 IN  IF m = <<>>
                     THEN /\ AddError("Error reading CloudRift SSH Key", <<keyPlan.Name>>)
                          /\ UNCHANGED <<keyPlan, dataState>>
                     ELSE /\ keyPlan' = sshKeyModel(m[1].Id, m[1].Name, m[1].PublicKey)
                          /\ dataState' = <<keyPlan'>>
                          /\ diags' = diags
    /\ sent' = [sent EXCEPT !.keys = Bump(@)]
    /\ pc' = "done"
    /\ UNCHANGED <<op, plan, state, matched, id, last, deadline, cancelled,
                   vmRecipies, keyState, resp, rented, requestVars, clientVars, flows>>

\* ================================================ DoRequestWithApiToken
\* the largest retry count a client is configured with
MaxRetries == 3

\* what c.HTTPClient.Do can fail with
TransportFailures == {"timeout", "connection refused"}

StatusCodes == {200, 201, 299, 300, 400, 404, 500}

\* a response body that io.ReadAll fails on
BodyUnreadable == "unreadable"

\* the outcome of one c.HTTPClient.Do: a transport failure or a response;
\* reached tells whether the remote received the request. A request that
\* timed out (http.Client.Timeout, 10 seconds) may have been received, its
\* answer being late or lost.
Failed(f) == [fail |-> f, status |-> 0, body |-> "", reached |-> FALSE]
Lost(f) == [fail |-> f, status |-> 0, body |-> "", reached |-> TRUE]
Response(st, b) == [fail |-> "", status |-> st, body |-> b, reached |-> TRUE]

Outcomes ==
    {Failed(f) : f \in TransportFailures} \cup {Lost("timeout")} \cup
    {Response(st, b) : st \in StatusCodes, b \in {"{}", BodyUnreadable}}

\* what the caller's parse function can return
ParseResults == {[err |-> NoErr, value |-> "parsed"], [err |-> "invalid JSON", value |-> ""]}

\* the rent request of RentPublicInstanceVM
RentUrl == "api/v1/instances/rent"

RequestUrls == {"api/v1/auth/me", "api/v1/instances/list", RentUrl}

\* variant: the backoff grows by one second a turn
LinearBackoff(sleeps) == IF sleeps = <<>> THEN 1 ELSE sleeps[Len(sleeps)] + 1

\* "backoff := 1 * time.Second" and "backoff = backoff << 1", in seconds
NextBackoff(sleeps) == IF sleeps = <<>> THEN 1 ELSE 2 * sleeps[Len(sleeps)]

\* variant: one more turn of the retry loop
RetriesLeftOrNone(n) == n >= 0

\* "for retries := c.retries; retries > 0; retries--"
RetriesLeft(n) == n > 0

\* variant: the first failure is the one reported
FirstFailure(t) == t[1].fail

\* the err that "request failed: %w" wraps: that of the latest attempt
WrappedFailure(t) == t[Len(t)].fail

\* variant: 300 counts as a success
SuccessUpTo300(st) == st >= 200 /\ st <= 300

\* "resp.StatusCode >= 200 && resp.StatusCode < 300"
IsSuccess(st) == st >= 200 /\ st < 300

\* "resp.StatusCode == http.StatusNotFound"
IsNotFound(st) == st = 404

\* variant: a response of the 5xx class is tried again as well
RetryableOrServerError(o) == o.fail # "" \/ o.status >= 500

\* "if err != nil" after c.HTTPClient.Do(req): only an attempt that got no
\* response is followed by another one
Retryable(o) == o.fail # ""

RequestStart ==
    /\ Begin("request", "x_do", NoPlan, NoKeyPlan, "")
    /\ \E u \in RequestUrls : call' = [name |-> "request", url |-> u]
    /\ tried' = <<>>
    /\ slept' = <<>>
    /\ left' = 0
    /\ parsed' = <<>>
    /\ result' = NoResult
    /\ UNCHANGED <<state, vmRecipies, keyState, retries, client, ret, heard, found, flows, dataState>>

\* "resp, err := c.HTTPClient.Do(req)"
DoFirst ==
    /\ pc = "x_do"
    /\ \E o \in Outcomes :
         /\ tried' = <<o>>
         /\ IF Retryable(o)
            THEN /\ left' = retries
                 /\ pc' = "x_loop"
            ELSE /\ left' = left
                 /\ pc' = "x_classify"
    /\ UNCHANGED <<op, plan, state, matched, id, last, diags, deadline, cancelled,
                   vmRecipies, keyVars, resp, got, rented, sent,
                   retries, slept, parsed, result, clientVars, flows, dataState>>

\* one turn of the retry loop: sleep, double the backoff, try again
Retry ==
    /\ pc = "x_loop"
    /\ RetriesLeft(left)
    /\ slept' = Append(slept, NextBackoff(slept))
    /\ \E o \in Outcomes :
         /\ tried' = Append(tried, o)
         /\ IF ~Retryable(o)
            THEN /\ left' = left
                 /\ pc' = "x_classify"
            ELSE /\ left' = left - 1
                 /\ pc' = "x_loop"
    /\ UNCHANGED <<op, plan, state, matched, id, last, diags, deadline, cancelled,
                   vmRecipies, keyVars, resp, got, rented, sent,
                   retries, parsed, result, clientVars, flows, dataState>>

\* "if the retries also failed, error out"
GiveUp ==
    /\ pc = "x_loop"
    /\ ~RetriesLeft(left)
    /\ result' = [NoResult EXCEPT !.kind = "transport", !.err = "request failed",
                                  !.wraps = WrappedFailure(tried), !.retried = retries]
    /\ pc' = "done"
    /\ UNCHANGED <<op, plan, state, matched, id, last, diags, deadline, cancelled,
                   vmRecipies, keyVars, resp, got, rented, sent,
                   retries, tried, slept, left, parsed, clientVars, flows, dataState>>

\* the classification of the response by its status code
Classify ==
    /\ pc = "x_classify"
    /\ LET r == tried[Len(tried)]
       IN  IF IsSuccess(r.status)
           THEN \E pr \in ParseResults :
                  /\ parsed' = <<pr>>
                  /\ result' = [NoResult EXCEPT !.kind = "parsed", !.err = pr.err,
                                                !.value = pr.value]
           ELSE /\ parsed' = parsed
                /\ result' =
                     IF IsNotFound(r.status)
                     THEN [NoResult EXCEPT !.kind = "sentinel", !.err = ErrNotFound]
                     ELSE IF r.body = BodyUnreadable
                     THEN [NoResult EXCEPT !.kind = "read", !.err = "unexpected EOF"]
                     ELSE [NoResult EXCEPT !.kind = "api", !.err = "request failed",
                                           !.url = call.url, !.status = r.status,
                                           !.body = r.body]
    /\ pc' = "done"
    /\ UNCHANGED <<op, plan, state, matched, id, last, diags, deadline, cancelled,
                   vmRecipies, keyVars, resp, got, rented, sent,
                   retries, tried, slept, left, clientVars, flows, dataState>>

\* ============================================================= HttpClient
\* the answers of POST api/v1/auth/me: a failure, an identity without email,
\* an identity
AuthResponses ==
    {[err |-> ErrOther, Email |-> ""],
     [err |-> NoErr, Email |-> ""],
     [err |-> NoErr, Email |-> "user@example.com"]}

\* variant: any identity the remote returns is accepted
AuthIgnoringEmail(a) == a.err

\* HttpClient.Auth against the answer of the identity request
Auth(a) ==
    IF a.err # NoErr THEN a.err
    ELSE IF a.Email = "" THEN "invalid api token"
    ELSE NoErr

Returns(e, w) == [err |-> e, wraps |-> w]

\* Configure: an error of NewCustom becomes a diagnostic of the provider
ClientError(e) ==
    diags' = IF op = "configure"
             THEN Append(diags, [summary |-> "Unable to create CloudRift API Client",
                                 detail |-> <<e>>])
             ELSE diags

\* NewCustom: a client object with an empty cache is set up
NewStart ==
    /\ Begin("new", "n_auth", NoPlan, NoKeyPlan, "")
    /\ client' = "none"
    /\ vmRecipies' = EmptyCache
    /\ call' = [name |-> "new"]
    /\ ret' = NoRet
    /\ heard' = <<>>
    /\ UNCHANGED <<state, keyState, requestVars, found, flows, dataState>>

\* NewCustom: "if err := c.Auth(); err != nil"
NewAuth ==
    /\ pc = "n_auth"
    /\ \E a \in AuthResponses :
         /\ sent' = [sent EXCEPT !.auth = Bump(@)]
         /\ heard' = Append(heard, a)
         /\ IF Auth(a) # NoErr
            THEN /\ ret' = Returns("failed to authenticated", Auth(a))
                 /\ client' = "failed"
                 /\ pc' = "done"
                 /\ ClientError("failed to authenticated")
            ELSE /\ pc' = "n_refresh"
                 /\ UNCHANGED <<ret, client, diags>>
    /\ UNCHANGED <<op, plan, state, matched, id, last, deadline, cancelled,
                   vmRecipies, keyVars, resp, got, rented, requestVars, call, found, flows, dataState>>

\* NewCustom: the cache is refreshed and must not stay empty
NewRefresh ==
    /\ pc = "n_refresh"
    /\ \E l \in RecipeListings :
         LET r == refreshVMRecipeCache(vmRecipies, l)
         IN  /\ sent' = [sent EXCEPT !.recipes = Bump(@)]
             /\ heard' = Append(heard, l)
             /\ vmRecipies' = r.cache
             /\ IF r.err # NoErr
                THEN /\ ret' = Returns("failed to refresh recipes cache", r.err)
                     /\ client' = "failed"
                     /\ ClientError("failed to refresh recipes cache")
                ELSE IF DOMAIN r.cache = {}
                THEN /\ ret' = Returns("no recipes for VMs found", "")
                     /\ client' = "failed"
                     /\ ClientError("no recipes for VMs found")
                ELSE /\ ret' = Returns(NoErr, "")
                     /\ client' = "ready"
                     /\ diags' = diags
    /\ pc' = "done"
    /\ UNCHANGED <<op, plan, state, matched, id, last, deadline, cancelled,
                   keyVars, resp, got, rented, requestVars, call, found, flows, dataState>>

\* ---------------------------------------------------- provider Configure
Endpoint == "https://api.cloudrift.ai"
Proto20250610 == "2025-06-10"

\* types.String of the provider configuration: null, unknown or a value
IsNull(v) == v = Null
IsUnknown(v) == v = Unknown
ValueString(v) == IF IsNull(v) \/ IsUnknown(v) THEN "" ELSE v

ProviderConfigs ==
    [Token : {Null, Unknown, "", "token-of-config"},
     BaseURL : {Null, Unknown, "", "https://config.example"},
     ProtoVersion : {Null, Unknown, "", "2025-03-21"}]

\* CLOUDRIFT_TOKEN, CLOUDRIFT_BASE_URL, CLOUDRIFT_PROTO_VERSION; os.Getenv
\* gives "" for a variable that is not set
Environments ==
    [Token : {"", "token-of-env"},
     BaseURL : {"", "https://env.example"},
     ProtoVersion : {"", "2025-05-29"}]

\* variant: the environment is preferred when it has a value
EnvWins(cfg, env) == IF env # "" THEN env ELSE ValueString(cfg)

\* "token := os.Getenv(...); if !config.Token.IsNull() { token = config.Token.ValueString() }"
ConfigWins(cfg, env) == IF ~IsNull(cfg) THEN ValueString(cfg) ELSE env

\* "if baseURL == \"\" { baseURL = cloudriftapi.Endpoint }"
OrDefault(v, d) == IF v = "" THEN d ELSE v

AttributeError(summary) == [summary |-> summary, detail |-> <<>>]

\* the diagnostics of the unknown attributes, in the order of the checks
UnknownErrors(config) ==
    (IF IsUnknown(config.Token)
     THEN <<AttributeError("Unknown CloudRift API Token")>> ELSE <<>>) \o
    (IF IsUnknown(config.BaseURL)
     THEN <<AttributeError("Unknown CloudRift Base URL")>> ELSE <<>>) \o
    (IF IsUnknown(config.ProtoVersion)
     THEN <<AttributeError("Unknown CloudRift Protocol Version")>> ELSE <<>>)

\* CloudRiftProvider.Configure up to the call of NewCustom, which NewAuth and
\* NewRefresh carry on
Configure ==
    /\ pc = "done"
    /\ \E config \in ProviderConfigs, env \in Environments :
         LET token == ConfigWins(config.Token, env.Token)
             baseURL == OrDefault(ConfigWins(config.BaseURL, env.BaseURL), Endpoint)
             protoVersion ==
                 OrDefault(ConfigWins(config.ProtoVersion, env.ProtoVersion), Proto20250610)
         IN  IF UnknownErrors(config) # <<>>
             THEN /\ diags' = UnknownErrors(config)
                  /\ pc' = "done"
                  /\ call' = [name |-> "configure", config |-> config, env |-> env,
                              token |-> "", baseURL |-> "", protoVersion |-> ""]
             ELSE /\ call' = [name |-> "configure", config |-> config, env |-> env,
                              token |-> token, baseURL |-> baseURL,
                              protoVersion |-> protoVersion]
                  /\ IF token = ""
                     THEN /\ diags' = <<AttributeError("Missing CloudRift API Token")>>
                          /\ pc' = "done"
                     ELSE /\ diags' = <<>>
                          /\ pc' = "n_auth"
    /\ op' = "configure"
    /\ client' = "none"
    /\ vmRecipies' = EmptyCache
    /\ ret' = NoRet
    /\ heard' = <<>>
    /\ sent' = NoRequests
    /\ plan' = NoPlan
    /\ keyPlan' = NoKeyPlan
    /\ id' = ""
    /\ deadline' = FALSE
    /\ cancelled' = FALSE
    /\ matched' = <<>>
    /\ last' = <<>>
    /\ resp' = NoResp
    /\ got' = NoGot
    /\ rented' = <<>>
    /\ UNCHANGED <<state, keyState, requestVars, found, flows, dataState>>

\* the names findVMRecipe is called with: its caller lower-cases them
LookupNames == {"ubuntu", "ubuntu-2", "centos"}

\* HttpClient.findVMRecipe is called on the constructed client
FindRecipe ==
    /\ client = "ready"
    /\ Begin("find", "l_read", NoPlan, NoKeyPlan, "")
    /\ \E recipe \in LookupNames : call' = [name |-> "find", recipe |-> recipe]
    /\ ret' = NoRet
    /\ heard' = <<>>
    /\ found' = <<>>
    /\ UNCHANGED <<state, vmRecipies, keyState, requestVars, client, flows, dataState>>

ArgRecipes == {"", "ubuntu", "Ubuntu", "UBUNTU", "ubuntu-2", "UBUNTU-2", "centos"}
ArgKeys == {<<>>, <<"">>, <<TestKey.PublicKey, "">>, <<TestKey.PublicKey, AnotherKey.PublicKey>>}

\* the rent calls tried: the working call, one argument of it varied at a
\* time, and the call with nothing filled in
RentCalls ==
    {RentArgs(r, "us-east-nc-nr-1", "rtx49-8c-nr.1", "", <<TestKey.PublicKey>>) :
        r \in ArgRecipes} \cup
    {RentArgs("Ubuntu", "", "rtx49-8c-nr.1", "", <<TestKey.PublicKey>>),
     RentArgs("Ubuntu", "us-east-nc-nr-1", "", "", <<TestKey.PublicKey>>),
     RentArgs("", "", "", "", <<>>)} \cup
    {RentArgs("Ubuntu", "us-east-nc-nr-1", "rtx49-8c-nr.1", c, <<TestKey.PublicKey>>) :
        c \in {B64Good, B64Bad}} \cup
    {RentArgs("Ubuntu", "us-east-nc-nr-1", "rtx49-8c-nr.1", "", k) : k \in ArgKeys}

\* HttpClient.RentPublicInstanceVM is called on the constructed client
Rent ==
    /\ client = "ready"
    /\ Begin("rent", "t_validate", NoPlan, NoKeyPlan, "")
    /\ \E a \in RentCalls : call' = a
    /\ ret' = NoRet
    /\ heard' = <<>>
    /\ found' = <<>>
    /\ UNCHANGED <<state, vmRecipies, keyState, requestVars, client, flows, dataState>>

\* RentPublicInstanceVM: the arguments are checked, then the recipe is
\* looked up
RentValidate ==
    /\ pc = "t_validate"
    /\ LET err == RentArgsError(call.recipe, call.datacenter, call.instance,
                                call.commands, call.pubKeys)
       IN  IF err # NoErr
           THEN CallFails(err, {})
           ELSE /\ pc' = "l_read"
                /\ UNCHANGED <<ret, diags>>
    /\ UNCHANGED <<op, plan, state, matched, id, last, deadline, cancelled,
                   vmRecipies, keyVars, resp, got, rented, sent, requestVars,
                   client, call, heard, found, flows, dataState>>

\* RentPublicInstanceVM: the rent request is answered
RentAnswered ==
    /\ pc = "t_rent"
    /\ \E rentResp \in RentResponses :
         ret' = [err |-> rentResp.err,
                 InstanceIds |-> IF rentResp.err = NoErr
                                 THEN rentResp.InstanceIds ELSE <<>>,
                 request |-> <<RentRequest(found[1], call)>>,
                 recipeRequests |-> sent.recipes, rentRequests |-> 1]
    /\ pc' = "done"
    /\ UNCHANGED <<op, plan, state, matched, id, last, diags, deadline, cancelled,
                   vmRecipies, keyVars, resp, got, rented, sent, requestVars,
                   client, call, heard, found, flows, dataState>>

\* ================================================= concurrent recipe lookups
\* The operations of one provider share its client; each runs findVMRecipe
\* on the client's map with no lock taken. A map access takes time: it is
\* begun, then ended. Go leaves a map access that overlaps a write of another
\* goroutine undefined: it may go through, lose the write, or be caught by
\* the runtime, which then ends the process.
Flow(recipe) ==
    [pc |-> "lookup", recipe |-> recipe, pending |-> <<>>, found |-> <<>>,
     err |-> "none", raced |-> FALSE]

\* refreshVMRecipeCache: the entries its loops store, in order
RECURSIVE StoresOfRecipes(_, _)
StoresOfRecipes(recipes, k) ==
    IF k > Len(recipes) THEN <<>>
    ELSE LET u == UnmarshalDetails(recipes[k].Details)
         IN  IF u.err # NoErr \/ u.v = RecipeDetails1("", "")
             THEN StoresOfRecipes(recipes, k + 1)
             ELSE <<[name |-> ToLower(recipes[k].Name), details |-> u.v]>>
                  \o StoresOfRecipes(recipes, k + 1)

RECURSIVE StoresOf(_, _)
StoresOf(groups, g) ==
    IF g > Len(groups) THEN <<>>
    ELSE StoresOfRecipes(groups[g], 1) \o StoresOf(groups, g + 1)

Reading(f) == f.pc \in {"reading", "rereading"}
Writing(f) == f.pc = "writing"
Fatal == \E i \in DOMAIN flows : flows[i].pc = "fatal"

\* the flows run: none has been ended by the runtime
Running == pc = "f_run" /\ ~Fatal

\* flow i moves to f; the flows in js are marked as overlapped by a write
Moves(i, f, js) ==
    flows' = [j \in DOMAIN flows |->
                IF j = i THEN f
                ELSE IF j \in js THEN [flows[j] EXCEPT !.raced = TRUE]
                ELSE flows[j]]

flowFrame ==
    <<pc, op, plan, state, matched, id, last, diags, deadline, cancelled, keyPlan,
      keyState, resp, got, rented, sent, requestVars, clientVars, dataState>>

\* operations start together, each looking up its recipe
FlowsStart ==
    /\ client = "ready"
    /\ Begin("lookups", "f_run", NoPlan, NoKeyPlan, "")
    /\ flows' \in [1..MaxFlows -> {Flow(r) : r \in LookupNames}]
    /\ UNCHANGED <<state, vmRecipies, keyState, requestVars, clientVars, dataState>>

\* "found := c.vmRecipies[recipe]" and "found = c.vmRecipies[recipe]": begun
FlowBeginRead ==
    /\ Running
    /\ \E i \in DOMAIN flows :
         LET writers == {j \in DOMAIN flows \ {i} : Writing(flows[j])}
         IN  /\ flows[i].pc \in {"lookup", "relookup"}
             /\ Moves(i, [flows[i] EXCEPT
                            !.pc = IF @ = "lookup" THEN "reading" ELSE "rereading",
                            !.raced = writers # {}],
                      writers)
    /\ UNCHANGED <<vmRecipies, flowFrame>>

\* the value a read that goes through returns
ReadMap(f) ==
    IF f.recipe \in DOMAIN vmRecipies THEN <<vmRecipies[f.recipe]>> ELSE <<>>

\* the read ended; "if found == nil" decides what follows
FlowEndRead ==
    /\ Running
    /\ \E i \in DOMAIN flows, caught \in BOOLEAN :
         LET f == flows[i]
             v == ReadMap(f)
         IN  /\ Reading(f)
             /\ caught => f.raced
             /\ Moves(i, IF caught THEN [f EXCEPT !.pc = "fatal"]
                         ELSE IF v # <<>>
                         THEN [f EXCEPT !.pc = "done", !.found = v, !.err = NoErr,
                                        !.raced = FALSE]
                         ELSE IF f.pc = "reading"
                         THEN [f EXCEPT !.pc = "list", !.raced = FALSE]
                         ELSE [f EXCEPT !.pc = "done", !.err = "recipe not found",
                                        !.raced = FALSE],
                      {})
    /\ UNCHANGED <<vmRecipies, flowFrame>>

\* refreshVMRecipeCache: "recipes, err := c.ListRecipes()"
FlowList ==
    /\ Running
    /\ \E i \in DOMAIN flows, l \in ListRecipesResponses :
         /\ flows[i].pc = "list"
         /\ Moves(i, IF l.err # NoErr
                     THEN [flows[i] EXCEPT !.pc = "done", !.err = l.err]
                     ELSE [flows[i] EXCEPT !.pc = "store",
                                           !.pending = StoresOf(l.Groups, 1)],
                  {})
    /\ UNCHANGED <<vmRecipies, flowFrame>>

\* refreshVMRecipeCache: "c.vmRecipies[name] = &vmDetails", begun
FlowBeginWrite ==
    /\ Running
    /\ \E i \in DOMAIN flows :
         LET others == {j \in DOMAIN flows \ {i} : Reading(flows[j]) \/ Writing(flows[j])}
         IN  /\ flows[i].pc = "store"
             /\ flows[i].pending # <<>>
             /\ Moves(i, [flows[i] EXCEPT !.pc = "writing", !.raced = others # {}],
                      others)
    /\ UNCHANGED <<vmRecipies, flowFrame>>

\* the write ended: stored, or, having overlapped another access, lost or
\* caught by the runtime
FlowEndWrite ==
    /\ Running
    /\ \E i \in DOMAIN flows, outcome \in {"stored", "lost", "caught"} :
         LET f == flows[i]
         IN  /\ Writing(f)
             /\ outcome # "stored" => f.raced
             /\ vmRecipies' = IF outcome = "stored"
                              THEN MapPut(vmRecipies, f.pending[1].name,
                                          f.pending[1].details)
                              ELSE vmRecipies
             /\ Moves(i, IF outcome = "caught" THEN [f EXCEPT !.pc = "fatal"]
                         ELSE [f EXCEPT !.pc = "store", !.pending = Tail(@),
                                        !.raced = FALSE],
                      {})
    /\ UNCHANGED flowFrame

\* refreshVMRecipeCache returns nil: findVMRecipe looks up again
FlowStored ==
    /\ Running
    /\ \E i \in DOMAIN flows :
         /\ flows[i].pc = "store"
         /\ flows[i].pending = <<>>
         /\ Moves(i, [flows[i] EXCEPT !.pc = "relookup"], {})
    /\ UNCHANGED <<vmRecipies, flowFrame>>

\* every lookup has returned
FlowsJoin ==
    /\ Running
    /\ \A i \in DOMAIN flows : flows[i].pc = "done"
    /\ pc' = "done"
    /\ UNCHANGED <<op, plan, state, matched, id, last, diags, deadline, cancelled,
                   vmRecipies, keyVars, resp, got, rented, sent, apiVars>>

\* ============================================================ specification
\* the virtual-machine resource
Next ==
    \/ CreateStart \/ CreateListKeys \/ CreateRent
    \/ FindRead \/ FindListed \/ FindStored \/ OtherRefresh \/ CreateRented
    \/ CreateTimeout \/ CreateCanceled \/ CreateTick \/ CreatePoll
    \/ DeadlineFires \/ Cancel
    \/ ImportState \/ ReadStart \/ ReadFetch
    \/ DeleteStart \/ DeleteTerminate \/ DeleteCanceled \/ DeleteTick \/ DeletePoll

Spec == Init /\ [][Next]_vars

\* the SSH-key resource
NextKey ==
    \/ KeyCreateStart \/ KeyCreate
    \/ KeyImport
    \/ KeyReadStart \/ KeyRead
    \/ KeyDeleteStart \/ KeyDelete
    \/ KeyDataStart \/ KeyDataRead

SpecKey == Init /\ [][NextKey]_vars

\* both resources, created and deleted one after the other, with no deadline
\* and no cancellation
NextCreateDelete ==
    \/ CreateStart \/ CreateListKeys \/ CreateRent
    \/ FindRead \/ FindListed \/ FindStored \/ OtherRefresh \/ CreateRented
    \/ CreateTick \/ CreatePoll
    \/ DeleteStart \/ DeleteTerminate \/ DeleteTick \/ DeletePoll
    \/ KeyCreateStart \/ KeyCreate
    \/ KeyDeleteStart \/ KeyDelete

SpecCreateDelete == Init /\ [][NextCreateDelete]_vars

\* one Create, every remote call of which returns, whose provisioning timer
\* fires and whose select takes a ready case
NextCreate ==
    \/ CreateStart \/ CreateListKeys \/ CreateRent
    \/ FindRead \/ FindListed \/ FindStored \/ OtherRefresh \/ CreateRented
    \/ CreateTimeout \/ CreateCanceled \/ CreateTick \/ CreatePoll
    \/ DeadlineFires \/ Cancel

SpecCreateFair ==
    /\ Init
    /\ [][NextCreate]_vars
    /\ WF_vars(CreateListKeys)
    /\ WF_vars(CreateRent)
    /\ WF_vars(FindRead)
    /\ WF_vars(FindListed)
    /\ WF_vars(FindStored)
    /\ WF_vars(CreateRented)
    /\ WF_vars(CreatePoll)
    /\ WF_vars(DeadlineFires)
    /\ WF_vars(CreateTimeout \/ CreateCanceled \/ CreateTick)

\* the states a finished Create leaves tracked: the working plan filled in
\* from a ready instance
TrackedStates ==
    {<<populateModelFromInstanceResponse(
         PlanModel("ubuntu", "us-east-nc-nr-1", "rtx49-8c-nr.1", "1", <<>>), inst)>> :
        inst \in {x \in UNION {Instances(i) : i \in InstanceIdSet} : InstanceReady(x)}}

InitTracked ==
    \E cache \in InitialCaches, st \in TrackedStates :
        IdleWith("ready", ProviderRetries, cache, st)

\* Delete of a tracked virtual machine, every remote call of which returns
\* and whose select takes a ready case
NextDelete ==
    \/ DeleteStart \/ DeleteTerminate \/ DeleteCanceled \/ DeleteTick \/ DeletePoll
    \/ Cancel

SpecDeleteFair ==
    /\ InitTracked
    /\ [][NextDelete]_vars
    /\ WF_vars(DeleteTerminate)
    /\ WF_vars(DeletePoll)
    /\ WF_vars(DeleteCanceled \/ DeleteTick)

\* Update of a tracked virtual machine and of a created SSH key
NextUpdate ==
    \/ UpdateStart \/ Update
    \/ KeyCreateStart \/ KeyCreate
    \/ KeyUpdateStart \/ KeyUpdate

SpecUpdate == InitTracked /\ [][NextUpdate]_vars

\* one request through the retry layer, for every retry count
InitRequest ==
    \E r \in 0..MaxRetries, cache \in InitialCaches : Idle("ready", r, cache)

NextRequest == RequestStart \/ DoFirst \/ Retry \/ GiveUp \/ Classify

SpecRequest == InitRequest /\ [][NextRequest]_vars

\* the client: constructed, then asked for recipes and rents
InitClient == Idle("none", ProviderRetries, EmptyCache)

NextClient ==
    \/ NewStart \/ NewAuth \/ NewRefresh
    \/ FindRecipe \/ Rent \/ RentValidate
    \/ FindRead \/ FindListed \/ FindStored \/ OtherRefresh \/ RentAnswered

SpecClient == InitClient /\ [][NextClient]_vars

\* the provider is configured, again and again
NextConfigure == Configure \/ NewAuth \/ NewRefresh

SpecConfigure == InitClient /\ [][NextConfigure]_vars

\* lifecycle operations looking recipes up on the client they share
NextFlows ==
    \/ FlowsStart \/ FlowBeginRead \/ FlowEndRead \/ FlowList
    \/ FlowBeginWrite \/ FlowEndWrite \/ FlowStored \/ FlowsJoin

SpecFlows == Init /\ [][NextFlows]_vars

\* ================================================================== claims
\* the summaries of the diagnostics, in order
Summaries == [k \in DOMAIN diags |-> diags[k].summary]

LastDiag == IF diags = <<>> THEN "" ELSE diags[Len(diags)].summary

\* readiness as the specification words it: Active, and a ready machine at
\* any position of the list
ReadyAnywhere(inst) ==
    /\ inst.Status = Active
    /\ \E k \in DOMAIN inst.VirtualMachines : inst.VirtualMachines[k].Ready

\* C1: every answered poll of Create ends the creation with success exactly
\* when the fetched snapshot is Active with a ready machine at any position;
\* otherwise the loop goes on.
C1_ReadyAtAnyPosition ==
    [][(pc = "c_fetch" /\ pc' # "c_fetch" /\ got'.err = NoErr)
          => IF ReadyAnywhere(got'.inst[1])
             THEN pc' = "done" /\ diags' = <<>> /\ state' # <<>>
             ELSE pc' = "c_select"]_vars

\* a snapshot that is Active with a ready machine behind an unready one has
\* been fetched, and Create waits for the next tick
C1_StillPolling ==
    /\ op = "create" /\ pc = "c_select"
    /\ got.err = NoErr
    /\ ReadyAnywhere(got.inst[1])
    /\ state = <<>>

\* C2: a rent answer with no id or with two or more ids fails Create: an
\* error is reported, no poll is issued and nothing is persisted.
C2_ExactlyOneId ==
    (op = "create" /\ rented # <<>> /\ Len(rented[1]) # 1)
        => /\ pc = "done"
           /\ diags # <<>>
           /\ sent.list = 0
           /\ state = <<>>

\* the rent call returned two ids and Create polls for the first of them
C2_PollsWithTwoIds ==
    /\ op = "create" /\ pc = "c_fetch"
    /\ rented # <<>> /\ Len(rented[1]) = 2
    /\ id = rented[1][1]
    /\ sent.list = 1

\* C3: once the rent call returned an id, every failing end of Create has
\* persisted a state that carries that id.
C3_FailurePersistsId ==
    (op = "create" /\ pc = "done" /\ diags # <<>> /\ rented # <<>> /\ Len(rented[1]) >= 1)
        => /\ state # <<>>
           /\ state[1].ID = rented[1][1]

\* an instance was rented, the poll answered NotFound, and Create has ended
\* with an error and nothing persisted
C3_RentedAndUntracked ==
    /\ op = "create" /\ pc = "done"
    /\ rented # <<>> /\ Len(rented[1]) >= 1
    /\ got.err = ErrNotFound
    /\ Summaries = <<"Error creating Virtual Machine">>
    /\ state = <<>>

\* the plans after "plan.ID = types.StringValue(id)": only the id filled in
PlansWithId(i) == {[p EXCEPT !.ID = i] : p \in Plans}

\* C4: the deadline and the cancellation exit persist the plan merged with
\* the most recently fetched snapshot, and the plan with only the id filled
\* in when no poll has succeeded.
C4_ExitPersistsLatest ==
    [][(pc = "c_select" /\ pc' = "done")
          => /\ state' = <<IF got.err = NoErr
                           THEN populateModelFromInstanceResponse(plan, got.inst[1])
                           ELSE plan>>
             /\ got.err = NoErr => sent.list >= 1
             /\ got.err # NoErr => /\ got = NoGot
                                   /\ state'[1] \in PlansWithId(rented[1][1])]_vars

C4_Witness ==
    /\ op = "create" /\ pc = "done"
    /\ LastDiag \in {"Provisioning timeout reached", "Polling Interval Canceled"}
    /\ sent.list >= 2
    /\ got.err = NoErr
    /\ state # <<>>
    /\ state[1].ID = rented[1][1]
    /\ state[1].Status = got.inst[1].Status

\* C5 as written: at a selection with several triggers ready the deadline
\* wins over the cancellation and the tick, the cancellation over the tick.
C5_PriorityOrder ==
    [][(pc = "c_select" /\ pc' # "c_select")
          => /\ deadline => LastDiag' = "Provisioning timeout reached"
             /\ (~deadline /\ cancelled) => LastDiag' = "Polling Interval Canceled"]_vars

\* C5, amended: with the deadline expired or the cancellation signalled at
\* the selection no fetch is issued and a ready trigger is handled (either
\* of the two when both are ready); the tick is taken only when neither is.
C5_ReadyTriggerHandled ==
    [][(pc = "c_select" /\ pc' # "c_select")
          => /\ (deadline \/ cancelled)
                  => /\ pc' = "done"
                     /\ sent' = sent
                     /\ LastDiag' \in {"Provisioning timeout reached",
                                       "Polling Interval Canceled"}
             /\ LastDiag' = "Provisioning timeout reached" => deadline
             /\ LastDiag' = "Polling Interval Canceled" => cancelled
             /\ (~deadline /\ ~cancelled) => pc' = "c_fetch"]_vars

C5_Witness ==
    /\ op = "create" /\ pc = "done"
    /\ deadline /\ cancelled
    /\ LastDiag = "Polling Interval Canceled"

\* C6: a Delete whose terminate or delete request is answered with NotFound
\* (or whose poll finds the instance gone) ends without an error and with the
\* resource dropped, whatever the tracked state was.
C6_IdempotentDelete ==
    /\ (op = "delete" /\ pc = "done" /\ got.err = ErrNotFound)
          => diags = <<>> /\ state = <<>>
    /\ (op = "keydelete" /\ pc = "done" /\ got.err = ErrNotFound)
          => diags = <<>> /\ keyState = <<>>

C6_Witness ==
    /\ op = "keydelete" /\ pc = "done"
    /\ got.err = ErrNotFound
    /\ sent.keyDelete = 1
    /\ keyState = <<>>
    /\ diags = <<>>

\* the positions of the listing that carry the id
Hits(listing, i) == {k \in DOMAIN listing : listing[k].Id = i}

InactiveListed(r, i) ==
    r.err = NoErr /\ \E k \in Hits(r.Instances, i) : r.Instances[k].Status = Inactive

\* C7: on an answered by-id listing GetInstance gives NotFound when the id is
\* listed as Inactive just as when it is not listed, and gives the instance
\* only when the id is listed with another status; a Delete that sees the
\* instance listed as Inactive is over, with success.
C7_InactiveIsNotFound ==
    /\ (op \in {"create", "read", "import", "delete"} /\ resp.err = NoErr)
          => /\ Hits(resp.Instances, id) = {} => got = [err |-> ErrNotFound, inst |-> <<>>]
             /\ InactiveListed(resp, id) => got = [err |-> ErrNotFound, inst |-> <<>>]
             /\ got.err = NoErr
                  <=> \E k \in Hits(resp.Instances, id) : resp.Instances[k].Status # Inactive
             /\ got.err = NoErr
                  => /\ got.inst[1].Id = id
                     /\ got.inst[1].Status # Inactive
                     /\ got.inst[1] \in Range(resp.Instances)
    /\ (op = "delete" /\ InactiveListed(resp, id))
          => pc = "done" /\ diags = <<>> /\ state = <<>>

C7_Witness ==
    /\ op = "delete" /\ pc = "done"
    /\ InactiveListed(resp, id)
    /\ got.err = ErrNotFound
    /\ state = <<>> /\ diags = <<>>

\* C8: the Delete loop is left only by a fetch answering NotFound (success,
\* on that very answer), by a fetch failing otherwise (error) and by the
\* cancellation (error); a fetch that returns the instance goes on waiting.
C8_DeleteLoopExits ==
    [][/\ (pc = "d_fetch" /\ pc' # "d_fetch")
            => /\ got'.err = ErrNotFound
                    => pc' = "done" /\ diags' = <<>> /\ state' = <<>>
               /\ got'.err = ErrOther
                    => pc' = "done" /\ Summaries' = <<"Client Error">> /\ state' = state
               /\ got'.err = NoErr
                    => pc' = "d_select" /\ diags' = <<>> /\ state' = state
       /\ (pc = "d_select" /\ pc' # "d_select")
            => \/ pc' = "d_fetch" /\ diags' = <<>> /\ state' = state
               \/ /\ pc' = "done" /\ cancelled
                  /\ Summaries' = <<"Polling Interval Canceled">> /\ state' = state]_vars

C8_Witness ==
    /\ op = "delete" /\ pc = "done"
    /\ sent.terminate = 1 /\ sent.list = 2
    /\ got.err = ErrNotFound
    /\ state = <<>> /\ diags = <<>>

\* C9: Read fetches once; NotFound removes the resource without an error, any
\* other failure reports an error and leaves the state as it was, and a new
\* state is written only from a fetched instance.
C9_ReadOutcomes ==
    [][(pc = "r_fetch" /\ pc' # "r_fetch")
          => /\ pc' = "done"
             /\ sent.list = 0 /\ sent'.list = 1
             /\ got'.err = ErrNotFound => state' = <<>> /\ diags' = <<>>
             /\ got'.err = ErrOther
                  => state' = state /\ Summaries' = <<"Error reading CloudRift Virtual Machine">>
             /\ got'.err = NoErr
                  => /\ state' = <<populateModelFromInstanceResponse(state[1], got'.inst[1])>>
                     /\ diags' = <<>>
             /\ (state' # <<>> /\ state' # state) => got'.err = NoErr]_vars

C9_Witness ==
    /\ op = "read" /\ pc = "done"
    /\ got.err = ErrNotFound
    /\ sent.list = 1
    /\ state = <<>> /\ diags = <<>>

\* the attributes the remote never returns
WriteOnly(m) == <<m.Recipe, m.Datacenter, m.SSHKeyID, m.Metadata>>

\* C10: every state written by Read or by Create carries recipe, datacenter,
\* ssh_key_id and metadata exactly as the previous state (Read) or the plan
\* (Create) held them.
C10_WriteOnlyCarriedOver ==
    [][(state' # <<>> /\ pc # "done")
          => WriteOnly(state'[1]) = WriteOnly(IF op = "create" THEN plan ELSE state[1])]_vars

C10_Witness ==
    /\ op = "read" /\ pc = "done"
    /\ got.err = NoErr
    /\ state # <<>>
    /\ state[1].Status = got.inst[1].Status
    /\ state[1].Recipe = "ubuntu"
    /\ state[1].Metadata # <<>>

\* the values named by the detail texts of the diagnostics
Named == UNION {Range(diags[k].detail) : k \in DOMAIN diags}

\* a rent request was sent only for a plan whose ssh_key_id is the id of the
\* matched key of the remote list
RentOnlyWithMatchedKey ==
    (op = "create" /\ sent.rent > 0)
        => /\ matched # <<>>
           /\ matched[1].Id = plan.SSHKeyID

\* C20 as written: no rent request without a matched key, and a Create that
\* matched no key, the key listing having failed or not, ends with an error
\* that names the key id, without a rent request and without state.
C20_NoKeyErrorNamesId ==
    /\ RentOnlyWithMatchedKey
    /\ (op = "create" /\ pc = "done" /\ matched = <<>>)
          => /\ diags # <<>>
             /\ plan.SSHKeyID \in Named
             /\ sent.rent = 0
             /\ state = <<>>

\* C20, amended: no rent request without a matched key; a Create that matched
\* no key ends without a rent request and without state, with an error that
\* names the key id when the list was fetched and has no such key, and that
\* carries the failure of the listing when the listing failed.
C20_NoRentWithoutKey ==
    /\ RentOnlyWithMatchedKey
    /\ (op = "create" /\ pc = "done" /\ matched = <<>>)
          => /\ sent.keys = 1 /\ sent.rent = 0 /\ sent.recipes = 0
             /\ state = <<>>
             /\ \/ /\ Summaries = <<"Error fetching Virtual Machine SSH Key">>
                   /\ diags[1].detail = <<plan.SSHKeyID>>
                \/ /\ Summaries = <<"Error reading CloudRift SSH Keys">>
                   /\ diags[1].detail \in {<<ErrNotFound>>, <<ErrOther>>}

C20_Witness ==
    /\ op = "create" /\ pc = "done"
    /\ plan.SSHKeyID = "404"
    /\ matched = <<>>
    /\ Summaries = <<"Error fetching Virtual Machine SSH Key">>
    /\ sent.rent = 0
    /\ state = <<>>

\* C19: SSH key Create with an empty name or an empty public key fails at
\* once, with no add request and no state; with both given it posts exactly
\* one add request, and the state it persists is the id, name and key of the
\* server's answer.
C19_KeyCreateValidates ==
    [][(pc = "k_add" /\ pc' # "k_add")
          => /\ pc' = "done"
             /\ (keyPlan.Name = "" \/ keyPlan.PublicKey = "")
                  => /\ sent'.keyAdd = 0
                     /\ sent' = sent
                     /\ keyState' = <<>>
                     /\ Summaries' = <<"Error creating SSH key">>
             /\ (keyPlan.Name # "" /\ keyPlan.PublicKey # "")
                  => /\ sent'.keyAdd = 1
                     /\ got'.err = NoErr
                          => /\ diags' = <<>>
                             /\ keyState' = <<[ID |-> got'.inst[1].Id,
                                               Name |-> got'.inst[1].Name,
                                               PublicKey |-> got'.inst[1].PublicKey]>>
                     /\ got'.err # NoErr
                          => /\ Summaries' = <<"Error creating SSH key">>
                             /\ keyState' = <<>>]_vars

C19_Witness ==
    /\ op = "keycreate" /\ pc = "done"
    /\ sent.keyAdd = 1
    /\ diags = <<>>
    /\ got.err = NoErr
    /\ keyState = <<[ID |-> "11111", Name |-> "anotheruser-key", PublicKey |-> StoredKey]>>

\* the attempts that failed at transport level
FailedAttempts == {k \in DOMAIN tried : tried[k].fail # ""}

\* the call is over: execute has returned
Returned == op = "request" /\ pc = "done"

\* C11: execute retries only after a transport failure and stops at the
\* first attempt that returns a response; when it is over it has made
\* min(k, R+1) attempts, k the index of the first attempt that did not fail.
C11_AttemptsCounted ==
    op = "request"
        => /\ \A k \in DOMAIN tried : k < Len(tried) => k \in FailedAttempts
           /\ Len(tried) <= retries + 1
           /\ pc # "x_do" => Len(tried) >= 1
           /\ Returned
                => IF FailedAttempts = DOMAIN tried
                   THEN Len(tried) = retries + 1
                   ELSE /\ Len(tried) = Min(Len(tried), retries + 1)
                        /\ Len(tried) \notin FailedAttempts
                        /\ result.kind # "transport"

C11_Witness ==
    /\ Returned
    /\ retries = 2
    /\ Len(tried) = 3
    /\ FailedAttempts = {1, 2}
    /\ tried[3].status = 200
    /\ result.kind = "parsed" /\ result.err = NoErr

\* C12: when all R+1 attempts failed, execute returns a transport error
\* that wraps the failure of the last attempt and names R; the response is
\* never classified and the parser never called.
C12_ExhaustionReported ==
    (Returned /\ FailedAttempts = DOMAIN tried)
        => /\ Len(tried) = retries + 1
           /\ result = [NoResult EXCEPT !.kind = "transport", !.err = "request failed",
                                        !.wraps = tried[retries + 1].fail,
                                        !.retried = retries]
           /\ parsed = <<>>

C12_Witness ==
    /\ Returned
    /\ retries = 2
    /\ FailedAttempts = {1, 2, 3}
    /\ tried[1].fail = "timeout" /\ tried[3].fail = "connection refused"
    /\ result.kind = "transport"
    /\ result.wraps = "connection refused"
    /\ result.retried = 2

\* the response execute received, when it received one
Received == tried[Len(tried)]

\* what the received statuses other than 404 and the transport failures have
\* in common: the sentinel is not what they yield
SentinelOnlyFor404 ==
    (Returned /\ result.err = ErrNotFound)
        => Received.fail = "" /\ Received.status = 404

\* C13 as written: a 2xx response yields the parser's result, a 404 the
\* NotFound sentinel, which nothing else yields, and every other status an
\* API error with the URL, the status and the body, the parser not called.
C13_EveryOtherStatusApiError ==
    (Returned /\ Received.fail = "")
        => /\ SentinelOnlyFor404
           /\ (Received.status >= 200 /\ Received.status < 300)
                => /\ parsed # <<>>
                   /\ result = [NoResult EXCEPT !.kind = "parsed", !.err = parsed[1].err,
                                                !.value = parsed[1].value]
           /\ Received.status = 404
                => result.err = ErrNotFound /\ parsed = <<>>
           /\ (Received.status # 404 /\ ~(Received.status >= 200 /\ Received.status < 300))
                => /\ result = [NoResult EXCEPT !.kind = "api", !.err = "request failed",
                                                !.url = call.url,
                                                !.status = Received.status,
                                                !.body = Received.body]
                   /\ parsed = <<>>

\* C13, amended: as above, except that a response of another status whose
\* body cannot be read yields the error of the read instead of the API error.
C13_StatusClassified ==
    /\ SentinelOnlyFor404
    /\ (Returned /\ Received.fail = "")
        => /\ (Received.status >= 200 /\ Received.status < 300)
                => /\ parsed # <<>>
                   /\ result = [NoResult EXCEPT !.kind = "parsed", !.err = parsed[1].err,
                                                !.value = parsed[1].value]
           /\ Received.status = 404
                => /\ result = [NoResult EXCEPT !.kind = "sentinel", !.err = ErrNotFound]
                   /\ parsed = <<>>
           /\ (Received.status # 404 /\ ~(Received.status >= 200 /\ Received.status < 300))
                => /\ parsed = <<>>
                   /\ result.err # ErrNotFound
                   /\ IF Received.body = BodyUnreadable
                      THEN result = [NoResult EXCEPT !.kind = "read",
                                                     !.err = "unexpected EOF"]
                      ELSE result = [NoResult EXCEPT !.kind = "api",
                                                     !.err = "request failed",
                                                     !.url = call.url,
                                                     !.status = Received.status,
                                                     !.body = Received.body]

C13_Witness ==
    /\ Returned
    /\ Len(tried) = 2
    /\ Received.status = 500 /\ Received.body = "{}"
    /\ result.kind = "api"
    /\ result.status = 500
    /\ result.url = "api/v1/instances/list"

\* the VM recipes a listing holds: those the refresh stores
VmRecipesOf(l) ==
    IF l.err # NoErr THEN {}
    ELSE {l.Groups[g][k] : <<g, k>> \in
            {x \in (DOMAIN l.Groups) \X (1..2) : x[2] \in DOMAIN l.Groups[x[1]]}}
         \cap {r \in UNION {Range(l.Groups[g]) : g \in DOMAIN l.Groups} :
                 r.Details.kind = "vm" /\ r.Details.CloudinitUrl # ""}

\* the letter-casings of one name
CaseClasses ==
    {{"ubuntu", "Ubuntu", "UBUNTU"}, {"ubuntu-2", "UBUNTU-2"}, {"centos", "CentOS"}}

SameName(a, b) == \E c \in CaseClasses : a \in c /\ b \in c

DetailsOf(r) == RecipeDetails1(r.Details.CloudinitUrl, r.Details.ImageUrl)

\* a step of the running lookup, rent call or Create itself, as against a
\* store of another operation
OwnStep == pc # "done" /\ pc' # pc

\* the steps of a lookup: the first read returns a cached recipe with no
\* listing requested, and on a miss requests one listing; the listing is
\* awaited with the map left alone; its recipes stored, the map is read again
\* and the lookup returns, with no further listing. The recipe returned after
\* a refresh is the one the listing holds, or the one another operation
\* stored meanwhile.
FindOutcome(notBroughtIn) ==
    LET n == call.recipe
    IN  /\ sent.recipes <= 1 /\ sent'.recipes <= 1
        /\ pc = "l_read"
             => IF n \in DOMAIN vmRecipies
                THEN /\ pc' = "done"
                     /\ ret'.requests = 0
                     /\ heard' = <<>>
                     /\ ret'.err = NoErr
                     /\ ret'.found = <<vmRecipies[n]>>
                     /\ vmRecipies' = vmRecipies
                ELSE /\ pc' = "l_list"
                     /\ sent'.recipes = 1
                     /\ vmRecipies' = vmRecipies
        /\ pc = "l_list"
             => /\ Len(heard') = 1
                /\ sent' = sent
                /\ vmRecipies' = vmRecipies
                /\ pc' = IF heard'[1].err = NoErr THEN "l_store" ELSE "done"
        /\ pc = "l_store" => pc' = "done" /\ sent' = sent /\ heard' = heard
        /\ (pc \in {"l_list", "l_store"} /\ pc' = "done")
             => /\ ret'.requests = 1
                /\ IF \E r \in VmRecipesOf(heard'[1]) : ToLower(r.Name) = n
                   THEN /\ ret'.err = NoErr
                        /\ \E r \in VmRecipesOf(heard'[1]) :
                             ToLower(r.Name) = n /\ ret'.found = <<DetailsOf(r)>>
                   ELSE IF heard'[1].err = NoErr /\ n \in DOMAIN vmRecipies
                   THEN /\ ret'.err = NoErr
                        /\ ret'.found = <<vmRecipies[n]>>
                   ELSE /\ ret'.err # NoErr
                        /\ ret'.found = <<>>
                        /\ notBroughtIn

\* C14 as written: a hit issues no recipe-list request; a miss issues exactly
\* one, then returns the recipe if the refresh brought it in and otherwise
\* fails with an error naming the requested recipe.
C14_MissErrorNamesRecipe ==
    [][(op = "find" /\ OwnStep) => FindOutcome(call.recipe \in ret'.named)]_vars

\* C14, amended: as above, the error naming the requested recipe when the
\* listing was received without it; when the listing itself fails, the lookup
\* returns the failure of the listing, which does not name the recipe.
C14_OneRefreshPerLookup ==
    [][(op = "find" /\ OwnStep)
        => FindOutcome(IF heard'[1].err = NoErr
                       THEN ret'.named = {call.recipe}
                       ELSE ret'.named = {} /\ ret'.err = heard'[1].err)]_vars

C14_Witness ==
    /\ op = "find" /\ pc = "done"
    /\ call.recipe = "ubuntu-2"
    /\ ret.requests = 1
    /\ Len(heard) = 1
    /\ ret.err = NoErr
    /\ ret.found = <<RecipeDetails1("test", "test")>>

ValidRentArgs(a) ==
    /\ a.recipe # "" /\ a.datacenter # "" /\ a.instance # ""
    /\ a.pubKeys # <<>> /\ "" \notin Range(a.pubKeys)
    /\ a.commands \in {"", B64Good}

\* the lookup of the rent call ended on the details, and the rent request
\* follows
Resolved(details) == found' = <<details>> /\ pc' = "t_rent" /\ sent'.rent = 1

\* C15: a rent call resolves the recipe it names whatever the letter-casing
\* the remote listed it under: from the cache without a listing, or from the
\* listing a cache miss fetched; the rent request carries the details the
\* lookup resolved.
C15_CaseInsensitive ==
    [][(op = "rent" /\ OwnStep)
        => /\ pc = "t_validate" => (pc' = "l_read" <=> ValidRentArgs(call))
           /\ pc = "l_read"
                => \A n \in DOMAIN vmRecipies :
                     SameName(n, call.recipe)
                        => Resolved(vmRecipies[n]) /\ sent'.recipes = 0
           /\ pc = "l_store"
                => \A r \in VmRecipesOf(heard[1]) :
                     SameName(r.Name, call.recipe) => Resolved(DetailsOf(r))
           /\ pc = "t_rent"
                => /\ pc' = "done"
                   /\ ret'.rentRequests = 1
                   /\ ret'.request[1].Details = found[1]]_vars

C15_Witness ==
    /\ op = "rent" /\ pc = "done"
    /\ call.recipe = "UBUNTU-2"
    /\ Len(heard) = 1
    /\ \E r \in VmRecipesOf(heard[1]) : r.Name = "ubuntu-2"
    /\ ret.rentRequests = 1
    /\ ret.request[1].Details = RecipeDetails1("test", "test")

AuthAccepted(a) == a.err = NoErr /\ a.Email # ""

\* C17: construction authenticates before it lists recipes; a failed or
\* empty-identity authentication fails it with no recipe-list request; a
\* failed refresh or a cache left empty fails it; a client exists only after
\* an accepted authentication and with a non-empty cache.
C17_AuthThenPrime ==
    /\ op = "new"
        => /\ sent.recipes > 0 => sent.auth = 1 /\ AuthAccepted(heard[1])
           /\ sent.recipes <= 1
           /\ (pc = "done" /\ ~AuthAccepted(heard[1]))
                => client = "failed" /\ sent.recipes = 0 /\ ret.err # NoErr
           /\ (pc = "done" /\ Len(heard) = 2 /\ VmRecipesOf(heard[2]) = {})
                => client = "failed" /\ ret.err # NoErr
           /\ client = "ready"
                => pc = "done" /\ Len(heard) = 2 /\ AuthAccepted(heard[1])
                   /\ ret.err = NoErr
           /\ client = "none" => pc # "done"
    /\ client = "ready" => DOMAIN vmRecipies # {}

C17_Witness ==
    /\ op = "new" /\ pc = "done"
    /\ client = "ready"
    /\ sent.auth = 1 /\ sent.recipes = 1
    /\ heard[1].Email = "user@example.com"
    /\ "ubuntu" \in DOMAIN vmRecipies

\* C18: a rent call with an empty recipe, datacenter or instance type, with
\* no key or with an empty key fails at the check of its arguments, without a
\* recipe-list request and without a rent request.
C18_ValidationIsLocal ==
    (op = "rent" /\ (\/ call.recipe = "" \/ call.datacenter = "" \/ call.instance = ""
                     \/ call.pubKeys = <<>> \/ "" \in Range(call.pubKeys)))
        => /\ pc \in {"t_validate", "done"}
           /\ sent.recipes = 0
           /\ sent.rent = 0
           /\ heard = <<>>
           /\ found = <<>>
           /\ pc = "done"
                => /\ ret.err # NoErr
                   /\ ret.recipeRequests = 0
                   /\ ret.rentRequests = 0
                   /\ ret.request = <<>>

C18_Witness ==
    /\ op = "rent" /\ pc = "done"
    /\ call.recipe = "Ubuntu"
    /\ call.pubKeys = <<TestKey.PublicKey, "">>
    /\ ret.err = "no ssh key specified"
    /\ ret.rentRequests = 0

\* C16: the refreshes of concurrent operations are mutually excluded: no
\* two flows write the cache mapping at once, and none reads it while another
\* writes it.
C16_RefreshesExcluded ==
    \A i, j \in DOMAIN flows :
        (i # j /\ Writing(flows[i])) => ~Writing(flows[j]) /\ ~Reading(flows[j])

\* two operations missed the cache and the runtime caught their overlapping
\* writes
C16_Witness ==
    /\ op = "lookups"
    /\ \E i, j \in DOMAIN flows :
         /\ i # j
         /\ flows[i].pc = "fatal" /\ flows[i].pending # <<>>
         /\ Writing(flows[j])

\* the attempts of the call that the remote received
Reached == {k \in DOMAIN tried : tried[k].reached}

\* C21: the remote receives the rent request of one Create at most once,
\* the retries of the transport layer included.
C21_RentReceivedOnce ==
    (op = "request" /\ call.url = RentUrl) => Cardinality(Reached) <= 1

\* the rent call returned the parsed answer of its second attempt, the remote
\* having received the first one as well
C21_Witness ==
    /\ Returned
    /\ call.url = RentUrl
    /\ Len(tried) = 2
    /\ Reached = {1, 2}
    /\ tried[1].fail = "timeout"
    /\ result.kind = "parsed" /\ result.err = NoErr

\* the step that handles the answer to a poll fetch of Create
CreateFetchAnswered == op = "create" /\ pc = "c_fetch" /\ pc' # "c_fetch"

\* C22: a poll fetch of Create that fails with an error other than NotFound
\* does not end creation; a NotFound fetch ends it, the last snapshot being
\* persisted first.
C22_OnlyNotFoundFatal ==
    [][CreateFetchAnswered
        => /\ got'.err \notin {NoErr, ErrNotFound} => pc' = "c_select"
           /\ got'.err = ErrNotFound
                => pc' = "done" /\ state' = <<MergeLast(plan, last)>>]_vars

\* Create ended on a failed fetch that was not NotFound
C22_Witness ==
    /\ op = "create" /\ pc = "done"
    /\ got.err = ErrOther
    /\ sent.list = 1
    /\ LastDiag = "Error creating Virtual Machine"
    /\ state # <<>>

\* how a Create that returned ended
CreateOutcomes ==
    {o \in {"Ready", "TimedOut", "Canceled", "Failed"} :
        \/ o = "Ready" /\ diags = <<>> /\ state # <<>> /\ last # <<>>
        \/ o = "TimedOut" /\ Summaries = <<"Provisioning timeout reached">>
        \/ o = "Canceled" /\ Summaries = <<"Polling Interval Canceled">>
        \/ o = "Failed" /\ Len(diags) = 1
                        /\ Summaries[1] \in {"Error reading CloudRift SSH Keys",
                                             "Error fetching Virtual Machine SSH Key",
                                             "Error creating Virtual Machine"}}

\* C23: every Create returns, in exactly one of the outcomes Ready, TimedOut,
\* Canceled and Failed, whatever snapshots the remote returns, provided its
\* calls return and the provisioning timer fires.
C23_CreateTerminates ==
    /\ [](op = "create" /\ pc = "done" => Cardinality(CreateOutcomes) = 1)
    /\ (op = "create" /\ pc # "done") ~> (op = "create" /\ pc = "done")

\* Create timed out after polling a snapshot that was not ready
C23_Witness ==
    /\ op = "create" /\ pc = "done"
    /\ CreateOutcomes = {"TimedOut"}
    /\ sent.list >= 2
    /\ last # <<>> /\ ~InstanceReady(last[1])

\* the by-id listing shows the instance in a status other than Inactive
ListedAlive(r, i) ==
    /\ r.err = NoErr
    /\ Hits(r.Instances, i) # {}
    /\ \A k \in Hits(r.Instances, i) : r.Instances[k].Status # Inactive

DeleteRuns == op = "delete" /\ pc # "done"

\* C24: Delete arms no timer. Its wait ends when a fetch fails or reports the
\* instance absent or Inactive, or, at the select, by the cancellation and by
\* nothing else; once cancelled it returns. While the instance is reported
\* alive and the context is not cancelled the next poll is always due, so
\* Delete polls forever.
C24_DeleteHasNoDeadline ==
    /\ [](DeleteRuns => ~deadline)
    /\ [][(DeleteRuns /\ pc = "d_fetch" /\ pc' # "d_fetch")
            => IF ListedAlive(resp', id) THEN pc' = "d_select" ELSE pc' = "done"]_vars
    /\ [][(DeleteRuns /\ pc = "d_select" /\ pc' = "done") => cancelled]_vars
    /\ []((DeleteRuns /\ pc = "d_select" /\ ~cancelled)
            => ENABLED DeleteTick /\ ~ENABLED DeleteCanceled)
    /\ (DeleteRuns /\ cancelled) ~> (pc = "done")

\* Delete is back at the select after two polls that showed the instance alive
C24_Witness ==
    /\ DeleteRuns /\ pc = "d_select"
    /\ ~cancelled
    /\ sent.list >= 2
    /\ ListedAlive(resp, id)

\* the errors RentPublicInstanceVM returns before it sends the rent request
LocalRentErrors ==
    {"no image specified", "no ssh key specified", "empty datacenter", "empty instance",
     "failed to decode base64 encoded startup commands", "recipe not found", ErrOther}

\* C25: a cancellation takes effect at the select of a poll loop only. While
\* the context is cancelled the key listing, the rent and the terminate
\* request are still sent and every answer is processed in full: the
\* snapshot is recorded and readiness decides, as without the cancellation.
C25_CancelOnlyAtSelect ==
    [][(cancelled /\ pc # "done")
        => /\ (pc' = "done" /\ LastDiag' = "Polling Interval Canceled")
                => pc \in {"c_select", "d_select"}
           /\ pc = "c_listkeys" => sent'.keys = 1
           /\ pc = "c_rent"
                => \/ pc' = "l_read"
                   \/ /\ Len(diags') = 1
                      /\ diags'[1].detail # <<>>
                      /\ diags'[1].detail[1] \in LocalRentErrors
           /\ (pc \in {"l_read", "l_list", "l_store"} /\ pc' # pc)
                => \/ pc' \in {"l_list", "l_store"}
                   \/ pc' = "c_rented" /\ sent'.rent = 1
                   \/ /\ Len(diags') = 1
                      /\ diags'[1].detail # <<>>
                      /\ diags'[1].detail[1] \in LocalRentErrors
           /\ (pc = "c_rented" /\ pc' = "done")
                => /\ Len(diags') = 1
                   /\ diags'[1].summary = "Error creating Virtual Machine"
           /\ pc = "d_terminate" => sent'.terminate = 1
           /\ (pc = "c_fetch" /\ pc' # "c_fetch" /\ got'.err = NoErr)
                => /\ last' = got'.inst
                   /\ IF InstanceReady(got'.inst[1])
                      THEN pc' = "done" /\ diags' = <<>>
                           /\ state' = <<populateModelFromInstanceResponse(plan, got'.inst[1])>>
                      ELSE pc' = "c_select"
           /\ (pc = "d_fetch" /\ pc' # "d_fetch")
                => IF got'.err = NoErr THEN pc' = "d_select"
                   ELSE pc' = "done" /\ LastDiag' # "Polling Interval Canceled"]_vars

\* the context was cancelled while a poll fetch of Create was in flight; the
\* fetched snapshot was ready and Create succeeded
C25_Witness ==
    /\ op = "create" /\ pc = "done"
    /\ cancelled
    /\ diags = <<>>
    /\ state # <<>>
    /\ InstanceReady(last[1])

Attributes == {"Token", "BaseURL", "ProtoVersion"}

\* what Configure resolved for NewCustom
Resolved3 ==
    [a \in Attributes |->
        CASE a = "Token" -> call.token
          [] a = "BaseURL" -> call.baseURL
          [] a = "ProtoVersion" -> call.protoVersion]

DefaultOf(a) ==
    CASE a = "Token" -> "" [] a = "BaseURL" -> Endpoint [] a = "ProtoVersion" -> Proto20250610

\* C26: with every attribute known or null, a configured value wins over the
\* environment variable, which counts only for a null attribute; an empty
\* base URL or protocol version becomes the default; an empty token fails
\* the configuration with no client constructed and no request sent.
C26_ConfigOverEnvironment ==
    (op = "configure" /\ \A a \in Attributes : call.config[a] # Unknown)
        => /\ \A a \in Attributes :
                LET picked == IF call.config[a] # Null THEN call.config[a] ELSE call.env[a]
                IN  Resolved3[a] = IF picked = "" THEN DefaultOf(a) ELSE picked
           /\ IF call.token = ""
              THEN /\ pc = "done"
                   /\ client = "none"
                   /\ sent = NoRequests /\ heard = <<>>
                   /\ Summaries = <<"Missing CloudRift API Token">>
              ELSE pc = "done" => client \in {"ready", "failed"} /\ sent.auth = 1

\* the token of the configuration is used although the environment has one,
\* the base URL of the environment is used for the null attribute, the empty
\* protocol version becomes the default; the client is constructed
C26_Witness ==
    /\ op = "configure" /\ pc = "done"
    /\ call.config.Token = "token-of-config" /\ call.env.Token = "token-of-env"
    /\ call.token = "token-of-config"
    /\ call.config.BaseURL = Null /\ call.baseURL = "https://env.example"
    /\ call.config.ProtoVersion = "" /\ call.env.ProtoVersion = "2025-05-29"
    /\ call.protoVersion = Proto20250610
    /\ client = "ready"

\* the positions of a key list that hold the id
KeyHits(keys, i) == {k \in DOMAIN keys : keys[k].Id = i}

FirstHit(keys, i) == CHOOSE k \in KeyHits(keys, i) : \A j \in KeyHits(keys, i) : k <= j

\* C27: a Read of an SSH key, after Create or after an import by id, leaves
\* the tracked id, name and public key as the remote lists them under that
\* id, so a key listed as it was created reads back unchanged; a Read
\* against a list without the id removes the resource with no error.
C27_KeyReadsBack ==
    [][(pc = "k_list" /\ pc' = "done" /\ got'.err = NoErr)
        => /\ diags' = <<>>
           /\ IF KeyHits(got'.inst, id) = {}
              THEN keyState' = <<>>
              ELSE LET k == got'.inst[FirstHit(got'.inst, id)]
                   IN  /\ keyState' = <<sshKeyModel(id, k.Name, k.PublicKey)>>
                       /\ keyState = <<sshKeyModel(k.Id, k.Name, k.PublicKey)>>
                            => keyState' = keyState]_vars

\* a key imported by its id alone was read and holds what the remote lists
C27_Witness ==
    /\ op = "keyimport" /\ pc = "done"
    /\ id = "11111"
    /\ KeyHits(got.inst, id) # {}
    /\ keyState = <<sshKeyModel("11111", "anotheruser-key", "ssh-rsa AAAA anotheruser")>>

\* the instance the test server of the provider reports: Active, with a host
\* address and no virtual-machine list
ActiveWithoutMachines(i) == InstanceAndUsageInfo(i, Active, <<"127.0.0.1">>, <<>>)

\* C28: when every by-id listing reports the rented instance Active with a
\* host address and no virtual-machine list, a poll of Create ends the
\* creation with success.
C28_ActiveWithoutMachinesCompletes ==
    [][(op = "create" /\ pc = "c_fetch" /\ pc' # "c_fetch"
        /\ resp' = [err |-> NoErr, Instances |-> <<ActiveWithoutMachines(id)>>])
        => pc' = "done" /\ diags' = <<>> /\ state' # <<>>]_vars

\* Create polled that instance until the provisioning timer fired
C28_Witness ==
    /\ op = "create" /\ pc = "done"
    /\ rented = <<<<"1">>>>
    /\ sent.list >= 2
    /\ last = <<ActiveWithoutMachines("1")>>
    /\ Summaries = <<"Provisioning timeout reached">>

\* the positions of a key list that hold the name
NameHits(keys, n) == {k \in DOMAIN keys : keys[k].Name = n}

\* C29: on an answered key listing the data source takes the first listed
\* key of the configured name and sets its id and public key; when no key
\* has the name it fails with an error naming the name and sets no state.
C29_DataSourceFindsByName ==
    [][(pc = "ds_list" /\ pc' = "done" /\ got'.err = NoErr)
        => LET hits == NameHits(got'.inst, keyPlan.Name)
           IN  IF hits = {}
               THEN /\ dataState' = <<>>
                    /\ Len(diags') = 1
                    /\ keyPlan.Name \in Range(diags'[1].detail)
               ELSE LET k == got'.inst[CHOOSE h \in hits : \A j \in hits : h <= j]
                    IN  /\ dataState' = <<sshKeyModel(k.Id, keyPlan.Name, k.PublicKey)>>
                        /\ diags' = <<>>]_vars

\* the name is listed twice and the data source holds the first of the two
C29_Witness ==
    /\ op = "keydata" /\ pc = "done"
    /\ got.inst = TwiceListed
    /\ dataState = <<sshKeyModel("1", "test-key", "ssh-rsa AAAA testuser")>>

\* C30: Update of a virtual machine or of an SSH key ends with the
\* unsupported-method error, has sent no request, and the tracked virtual
\* machine and SSH key are what they were before it.
C30_UpdateUnsupported ==
    [][(op' \in {"update", "keyupdate"})
        => /\ state' = state
           /\ keyState' = keyState
           /\ sent' = NoRequests
           /\ requestVars' = requestVars
           /\ pc' = "done" => /\ Len(diags') = 1
                              /\ diags'[1].summary = "Unsupported Method"]_vars

\* an Update of a created SSH key has ended with its error while a virtual
\* machine is tracked, the change it planned being a different key name
C30_Witness ==
    /\ op = "keyupdate" /\ pc = "done"
    /\ diags = UpdateUnsupported("CloudRift SSH Key")
    /\ state # <<>>
    /\ keyState # <<>> /\ keyState[1].Name # keyPlan.Name

\* C31: the retries of one request wait 1, 2, 4, ... seconds in that order:
\* the wait before the k-th retry is 2^(k-1) seconds, every retry has its
\* wait, and the first attempt has none.
C31_BackoffDoubles ==
    op = "request"
        => /\ Len(slept) = IF tried = <<>> THEN 0 ELSE Len(tried) - 1
           /\ \A k \in DOMAIN slept : slept[k] = 2 ^ (k - 1)

\* three retries have been made, after waits of 1, 2 and 4 seconds
C31_Witness ==
    /\ op = "request"
    /\ Len(tried) = 4
    /\ slept = <<1, 2, 4>>

\* a poll fetch of the running Create or Delete is in flight
FetchInFlight == pc \in {"c_fetch", "d_fetch"}

\* C32: poll fetches of one Create or Delete never overlap: a fetch is sent
\* only from the selection, where none is in flight, and the poll timer is
\* armed again only after the answer has been handled, the snapshot being
\* recorded in Create and the instance found alive in Delete.
C32_FetchesSequential ==
    [][/\ (op \in {"create", "delete"} /\ (sent'.list > sent.list \/ (FetchInFlight' /\ pc' # pc)))
           => /\ ~FetchInFlight
              /\ pc \in {"c_select", "d_select"}
       /\ (pc = "c_fetch" /\ pc' = "c_select")
           => /\ got'.err = NoErr
              /\ last' = got'.inst
              /\ ~InstanceReady(last'[1])
       /\ (pc = "d_fetch" /\ pc' = "d_select")
           => got'.err = NoErr /\ got'.inst # <<>>
       /\ FetchInFlight => pc' \in {pc, "c_select", "d_select", "done"}]_vars

\* the second fetch of a Create is in flight, the first one recorded
C32_Witness ==
    /\ op = "create" /\ pc = "c_fetch"
    /\ last # <<>> /\ last = got.inst
    /\ sent.list >= 2

\* the recipes a listing holds, over all its groups
ListedRecipes(l) == UNION {Range(l.Groups[g]) : g \in DOMAIN l.Groups}

\* the details of the recipe decode to a record that is not all-empty
DecodesToVm(e) ==
    LET u == UnmarshalDetails(e.Details)
    IN  u.err = NoErr /\ u.v # RecipeDetails1("", "")

\* the listed recipes of the name, compared as the cache compares names
ListedAs(l, name) == {e \in ListedRecipes(l) : ToLower(e.Name) = ToLower(name)}

\* the listings a step may have stored from: the one the running call
\* received, or any one when the store is another operation's
StoredFrom == IF pc' = pc THEN {l \in RecipeListings : l.err = NoErr}
              ELSE Range(heard') \cap RecipeListings

\* C33: every entry of the recipe cache is the non-empty record that the
\* details of a listed recipe decoded to: a refresh stores an entry only
\* from such a recipe, under its lower-cased name, and stores nothing for a
\* recipe whose details fail to decode or decode to the all-empty record. A
\* rent or lookup that misses the cache and finds the name listed only with
\* such details reports the recipe as not found and sends no rent request.
C33_OnlyDecodedRecipesCached ==
    [][/\ \A k \in DOMAIN vmRecipies' :
            /\ vmRecipies'[k] # RecipeDetails1("", "")
            /\ (k \notin DOMAIN vmRecipies \/ vmRecipies'[k] # vmRecipies[k])
                 => \E l \in StoredFrom :
                      \E e \in ListedAs(l, k) :
                           /\ DecodesToVm(e)
                           /\ vmRecipies'[k] = UnmarshalDetails(e.Details).v
       /\ (/\ op \in {"rent", "find"}
           /\ pc = "l_store" /\ pc' # pc
           /\ ToLower(call.recipe) \notin DOMAIN vmRecipies
           /\ \A e \in ListedAs(heard[1], call.recipe) : ~DecodesToVm(e))
            => /\ pc' = "done"
               /\ ret'.err = "recipe not found"
               /\ ToLower(call.recipe) \notin DOMAIN vmRecipies'
               /\ sent'.rent = 0
               /\ op = "rent" => ret'.rentRequests = 0]_vars

\* a rent of a recipe that the remote lists with details that do not decode:
\* the refresh cached its neighbour and the rent reports it as not found
C33_Witness ==
    /\ op = "rent" /\ pc = "done"
    /\ call.recipe = "UBUNTU-2"
    /\ heard # <<>>
    /\ \E e \in ListedAs(heard[1], "UBUNTU-2") : ~DecodesToVm(e)
    /\ "ubuntu" \in DOMAIN vmRecipies
    /\ "ubuntu-2" \notin DOMAIN vmRecipies
    /\ ret.err = "recipe not found"

\* C34: a terminate request of Delete that fails with an error other than
\* NotFound ends Delete with that error reported, and one answered NotFound
\* ends Delete with success; in both cases no poll fetch has been issued.
C34_TerminateErrorEndsDelete ==
    [][(pc = "d_terminate" /\ pc' # pc /\ got'.err # NoErr)
        => /\ pc' = "done"
           /\ sent'.list = 0
           /\ sent'.terminate = 1
           /\ IF got'.err = ErrNotFound
              THEN diags' = <<>>
              ELSE /\ Len(diags') = 1
                   /\ diags'[1].summary = "Error Delete Virtual Machine"
                   /\ got'.err \in Range(diags'[1].detail)]_vars

\* a Delete has ended on the terminate request failing with another error
C34_Witness ==
    /\ op = "delete" /\ pc = "done"
    /\ got.err = ErrOther
    /\ sent.terminate = 1 /\ sent.list = 0
    /\ diags # <<>>
    /\ state # <<>>

\* C35: over the lifetime of a client a refresh never removes an entry of
\* the recipe cache, and an entry changes only to the details the listing of
\* that refresh holds for it; a lookup or a valid rent of a cached recipe
\* resolves to the cached details without a recipe listing being requested.
C35_CacheOnlyGrows ==
    [][pc' # "n_auth"
        => /\ DOMAIN vmRecipies \subseteq DOMAIN vmRecipies'
           /\ \A k \in DOMAIN vmRecipies :
                \/ vmRecipies'[k] = vmRecipies[k]
                \/ \E l \in StoredFrom :
                     \E e \in ListedAs(l, k) :
                        /\ DecodesToVm(e)
                        /\ vmRecipies'[k] = UnmarshalDetails(e.Details).v
           /\ (op = "find" /\ pc = "l_read" /\ pc' # pc
                           /\ call.recipe \in DOMAIN vmRecipies)
                => /\ pc' = "done"
                   /\ ret'.err = NoErr
                   /\ ret'.found = <<vmRecipies[call.recipe]>>
                   /\ ret'.requests = 0
                   /\ sent'.recipes = 0
                   /\ vmRecipies' = vmRecipies
           /\ (op = "rent" /\ pc = "l_read" /\ pc' # pc
                           /\ ToLower(call.recipe) \in DOMAIN vmRecipies)
                => /\ pc' = "t_rent"
                   /\ found' = <<vmRecipies[ToLower(call.recipe)]>>
                   /\ sent'.recipes = 0
                   /\ sent'.rent = 1
                   /\ vmRecipies' = vmRecipies
           /\ (op = "rent" /\ pc = "t_rent" /\ pc' # pc)
                => /\ ret'.recipeRequests = sent.recipes
                   /\ ret'.rentRequests = 1
                   /\ ret'.request[1].Details = found[1]]_vars

\* the cache holds the later details of one recipe beside a recipe that the
\* later listing no longer held, and a rent of the latter resolves from it
C35_Witness ==
    /\ op = "rent" /\ pc = "done"
    /\ call.recipe = "ubuntu-2"
    /\ DOMAIN vmRecipies = {"ubuntu", "ubuntu-2"}
    /\ vmRecipies["ubuntu"] = RecipeDetails1("test2", "test2")
    /\ vmRecipies["ubuntu-2"] = RecipeDetails1("test", "test")
    /\ ret.recipeRequests = 0
    /\ ret.rentRequests = 1
    /\ ret.request[1].Details = RecipeDetails1("test", "test")

\* C36: when the recipe listing requested on a cache miss fails, the lookup
\* has not touched the cache, it returns the error of the refresh and not a
\* recipe-not-found error, and no rent request is sent.
C36_FailedRefreshReported ==
    [][(op \in {"find", "rent"} /\ pc \in {"l_read", "l_list"} /\ pc' # pc)
        => /\ vmRecipies' = vmRecipies
           /\ (pc = "l_list" /\ heard'[1].err # NoErr)
                => /\ pc' = "done"
                   /\ found' = <<>>
                   /\ ret'.err = heard'[1].err
                   /\ ret'.err # "recipe not found"
                   /\ sent'.rent = 0
                   /\ sent'.recipes = 1
                   /\ op = "find" => ret'.found = <<>> /\ ret'.requests = 1
                   /\ op = "rent" => /\ ret'.rentRequests = 0
                                     /\ ret'.recipeRequests = 1
                                     /\ ret'.request = <<>>
                                     /\ ret'.InstanceIds = <<>>]_vars

\* a rent missed the cache and the recipe listing it requested failed
C36_Witness ==
    /\ op = "rent" /\ pc = "done"
    /\ ValidRentArgs(call)
    /\ heard # <<>> /\ heard[1].err = ErrOther
    /\ ret.err = ErrOther
    /\ ret.rentRequests = 0
    /\ vmRecipies # EmptyCache

\* C37: only attempts that got no response are followed by another attempt:
\* every attempt before the latest failed at the transport, and once an
\* attempt has a response, of whatever status code, the request is not sent
\* again, so a request answered at its first attempt is sent exactly once.
C37_ResponseEndsRetries ==
    /\ [](op = "request"
            => /\ \A k \in DOMAIN tried : k < Len(tried) => tried[k].fail # ""
               /\ (tried # <<>> /\ tried[1].fail = "") => Len(tried) = 1 /\ slept = <<>>
               /\ (pc = "done" /\ result.kind # "transport")
                    => tried[Len(tried)].fail = "")
    /\ [][(op = "request" /\ pc # "done" /\ tried # <<>> /\ tried[Len(tried)].fail = "")
            => tried' = tried /\ pc' = "done"]_vars

\* a request answered 500 and one answered 404 at the first attempt, with
\* retries configured, have ended after that one attempt
C37_Witness ==
    /\ op = "request" /\ pc = "done"
    /\ retries >= 2
    /\ Len(tried) = 1
    /\ tried[1].status \in {404, 500}

\* C38: once the deadline of a Create has expired no poll fetch is started:
\* a fetch in flight at that moment is the only one to end after it, and the
\* selection that follows can only end Create, on the deadline or on the
\* cancellation, the poll timer armed on entry not being ready.
C38_NoFetchAfterDeadline ==
    [][(op = "create" /\ deadline)
        => /\ ~(pc = "c_select" /\ pc' = "c_fetch")
           /\ pc = "c_fetch" => pc' \in {"c_fetch", "c_select", "done"}
           /\ pc = "c_select"
                => /\ pc' \in {"c_select", "done"}
                   /\ sent'.list = sent.list
                   /\ pc' = "done"
                        => LastDiag' \in {"Provisioning timeout reached",
                                          "Polling Interval Canceled"}]_vars

\* the deadline expired while a fetch was in flight or the selection waited:
\* Create is at the selection with a snapshot, the deadline expired
C38_Witness ==
    /\ op = "create" /\ pc = "c_select"
    /\ deadline /\ ~cancelled
    /\ last # <<>>
    /\ sent.list >= 1

\* C39: a poll of Create answered with an Active instance whose first
\* machine is ready ends Create with success and the snapshot persisted, also
\* when the deadline expired or the cancellation was signalled while the
\* fetch was in flight: no timeout or cancellation error follows it.
C39_ReadyBeatsSignals ==
    [][(/\ op = "create" /\ pc = "c_fetch" /\ pc' # pc
        /\ got'.err = NoErr
        /\ got'.inst[1].Status = Active
        /\ Len(got'.inst[1].VirtualMachines) > 0
        /\ got'.inst[1].VirtualMachines[1].Ready)
        => /\ pc' = "done"
           /\ diags' = <<>>
           /\ state' = <<populateModelFromInstanceResponse(plan, got'.inst[1])>>]_vars

\* Create has ended with success on a ready snapshot although the deadline
\* had expired and the cancellation had been signalled during the fetch
C39_Witness ==
    /\ op = "create" /\ pc = "done"
    /\ deadline /\ cancelled
    /\ diags = <<>>
    /\ got.err = NoErr /\ InstanceReady(got.inst[1])
    /\ state # <<>> /\ state[1].Status = Active

\* the rent call of Create has not returned an id: Create is before the
\* call, or has ended without ids
NoIdRented ==
    \/ pc \in {"c_listkeys", "c_rent", "l_read", "l_list", "l_store", "c_rented"}
    \/ pc = "done" /\ (rented = <<>> \/ rented[1] = <<>>)

\* the planned startup commands are not base64, which the rent call rejects
\* before any request
PlanFailsValidation ==
    \/ plan.Recipe = ""
    \/ plan.Metadata # <<>> /\ plan.Metadata[1].StartupCommands \notin {"", B64Good}

\* C40: a Create that has not got an id from the rent call tracks no state:
\* the key listing failed, the key id was not matched, the rent call failed
\* in its validation or its request, or it returned no id; every such end
\* carries an error.
C40_NoStateBeforeId ==
    op = "create"
        => /\ NoIdRented => state = <<>>
           /\ PlanFailsValidation
                => /\ state = <<>>
                   /\ sent.rent = 0 /\ sent.recipes = 0
                   /\ pc \in {"c_listkeys", "c_rent", "done"}
           /\ (pc = "done" /\ (rented = <<>> \/ rented[1] = <<>>)) => diags # <<>>

\* Create has ended on a rent call that was sent and returned no id, with
\* the error reported and nothing tracked
C40_Witness ==
    /\ op = "create" /\ pc = "done"
    /\ matched # <<>>
    /\ rented = <<<<>>>> /\ sent.rent = 1
    /\ diags # <<>>
    /\ state = <<>>

====
